---- MODULE Spec2Model ----
(***************************************************************************)
(* Model of the electric-vehicle ETL pipeline (app/pipeline/etl.py), its   *)
(* validation schema (app/schemas/validation.py) and the store it loads.   *)
(*                                                                         *)
(* Text is a sequence of one-character strings, so that strip(), upper()   *)
(* and substring tests are computed character by character.  A cell value  *)
(* is a tagged record: absent key, None, NaN, int, float or str.           *)
(***************************************************************************)
EXTENDS Integers, Sequences, FiniteSets, TLC

(***************************************************************************)
(* Text: str.strip(), str.upper(), the `in` substring test.                *)
(***************************************************************************)
LowerLetters ==
    << "a","b","c","d","e","f","g","h","i","j","k","l","m",
       "n","o","p","q","r","s","t","u","v","w","x","y","z" >>

UpperLetters ==
    << "A","B","C","D","E","F","G","H","I","J","K","L","M",
       "N","O","P","Q","R","S","T","U","V","W","X","Y","Z" >>

Whitespace == { " ", "\t", "\n" }

\* the upper-case letter of each lower-case letter, and the reverse
ToUpper == [c \in { LowerLetters[i] : i \in 1..26 } |->
               UpperLetters[CHOOSE i \in 1..26 : LowerLetters[i] = c]]

ToLower == [c \in { UpperLetters[i] : i \in 1..26 } |->
               LowerLetters[CHOOSE i \in 1..26 : UpperLetters[i] = c]]

UpperChar(c) == IF c \in DOMAIN ToUpper THEN ToUpper[c] ELSE c

LowerChar(c) == IF c \in DOMAIN ToLower THEN ToLower[c] ELSE c

\* str.upper()
Upper(s) == [i \in 1..Len(s) |-> UpperChar(s[i])]

\* str.lower()
Lower(s) == [i \in 1..Len(s) |-> LowerChar(s[i])]

\* str.strip(): leading and trailing whitespace removed
Strip(s) ==
    IF \A i \in 1..Len(s) : s[i] \in Whitespace
    THEN << >>
    ELSE LET first == CHOOSE i \in 1..Len(s) :
                          /\ s[i] \notin Whitespace
                          /\ \A j \in 1..(i-1) : s[j] \in Whitespace
             last  == CHOOSE i \in 1..Len(s) :
                          /\ s[i] \notin Whitespace
                          /\ \A j \in (i+1)..Len(s) : s[j] \in Whitespace
         IN  SubSeq(s, first, last)

\* `sub in s` for two strings
Contains(s, sub) ==
    \E i \in 1..(Len(s) - Len(sub) + 1) : SubSeq(s, i, i + Len(sub) - 1) = sub

(***************************************************************************)
(* Cell values of a row, the keyword arguments VehicleRecord is built from. *)
(***************************************************************************)
Absent   == [t |-> "absent"]                 \* the key is not in the dict
NoneV    == [t |-> "none"]                   \* Python None
NaNV     == [t |-> "nan"]                    \* float('nan'), pandas' missing
InfV(ng) == [t |-> "inf", neg |-> ng]        \* float('inf') / float('-inf')
IntV(n)  == [t |-> "int", n |-> n]
StrV(s)  == [t |-> "str", s |-> s]
\* a finite float: sign, integer part, fractional digits (no trailing zeros)
FloatV(ng, ip, fd) == [t |-> "float", neg |-> ng, ip |-> ip, fd |-> fd]

Digits == << "0","1","2","3","4","5","6","7","8","9" >>

IsDigit(c) == \E i \in 1..10 : Digits[i] = c

DigitVal(c) == (CHOOSE i \in 1..10 : Digits[i] = c) - 1

AllDigits(s) == \A i \in 1..Len(s) : IsDigit(s[i])

RECURSIVE NatOf(_)
\* the number a digit string denotes
NatOf(s) ==
    IF s = << >> THEN 0
    ELSE NatOf(SubSeq(s, 1, Len(s) - 1)) * 10 + DigitVal(s[Len(s)])

RECURSIVE NatToStr(_)
\* str(n) for n >= 0
NatToStr(n) ==
    IF n < 10 THEN << Digits[n + 1] >>
    ELSE NatToStr(n \div 10) \o << Digits[(n % 10) + 1] >>

\* str(n) for an int
IntToStr(n) == IF n < 0 THEN << "-" >> \o NatToStr(-n) ELSE NatToStr(n)

RECURSIVE StripLeadingZeros(_)
StripLeadingZeros(s) ==
    IF s # << >> /\ s[1] = "0" THEN StripLeadingZeros(Tail(s)) ELSE s

RECURSIVE StripTrailingZeros(_)
StripTrailingZeros(s) ==
    IF s # << >> /\ s[Len(s)] = "0"
    THEN StripTrailingZeros(SubSeq(s, 1, Len(s) - 1))
    ELSE s

RECURSIVE Pow10(_)
Pow10(k) == IF k = 0 THEN 1 ELSE 10 * Pow10(k - 1)

Zeros(k) == [i \in 1..k |-> "0"]

(***************************************************************************)
(* Python's float(): of a number it is the number; of a string it parses   *)
(* [ws] [sign] (inf | infinity | nan | digits[.digits][e[sign]digits]) [ws]*)
(* and raises ValueError otherwise; of None it raises TypeError.  A value  *)
(* beyond the double range (about 1.8e308) becomes inf.                    *)
(***************************************************************************)
ValueErrorV == [t |-> "ValueError"]
TypeErrorV == [t |-> "TypeError"]
OverflowErrorV == [t |-> "OverflowError"]

IsException(v) == v.t \in { "ValueError", "TypeError", "OverflowError" }

\* largest decimal exponent of a finite double, and smallest of a non-zero one
MaxDoubleDigits == 309
MinDoubleDigits == -323

\* the digits before the point at position d of m, and those after it
SplitAt(m, d) ==
    IF AllDigits(SubSeq(m, 1, d - 1)) /\ AllDigits(SubSeq(m, d + 1, Len(m))) /\ Len(m) > 1
    THEN [ok |-> TRUE, ip |-> SubSeq(m, 1, d - 1), fp |-> SubSeq(m, d + 1, Len(m))]
    ELSE [ok |-> FALSE]

\* digits[.digits] split into the digits before and after the point
ParseMantissa(m) ==
    IF Cardinality({ i \in 1..Len(m) : m[i] = "." }) > 1 THEN [ok |-> FALSE]
    ELSE IF \E i \in 1..Len(m) : m[i] = "."
    THEN SplitAt(m, CHOOSE i \in 1..Len(m) : m[i] = ".")
    ELSE IF m # << >> /\ AllDigits(m)
    THEN [ok |-> TRUE, ip |-> m, fp |-> << >>]
    ELSE [ok |-> FALSE]

\* [sign]digits after the exponent marker
ParseExponent(x) ==
    IF x # << >> /\ x[1] = "-"
    THEN IF Len(x) > 1 /\ AllDigits(Tail(x))
         THEN [ok |-> TRUE, e |-> -NatOf(Tail(x))] ELSE [ok |-> FALSE]
    ELSE IF x # << >> /\ x[1] = "+"
    THEN IF Len(x) > 1 /\ AllDigits(Tail(x))
         THEN [ok |-> TRUE, e |-> NatOf(Tail(x))] ELSE [ok |-> FALSE]
    ELSE IF x # << >> /\ AllDigits(x)
    THEN [ok |-> TRUE, e |-> NatOf(x)] ELSE [ok |-> FALSE]

\* the double with significant digits D and mag digits before the point
\* (shift = the power of ten D is scaled by)
ScaleDigits(ng, D, shift, mag) ==
    IF D = << >> \/ mag < MinDoubleDigits THEN FloatV(FALSE, 0, << >>)
    ELSE IF \/ mag > MaxDoubleDigits
            \/ /\ mag = MaxDoubleDigits
               /\ \/ DigitVal(D[1]) >= 2
                  \/ DigitVal(D[1]) = 1 /\ Len(D) >= 2 /\ DigitVal(D[2]) >= 8
    THEN InfV(ng)
    ELSE IF shift >= 0 THEN FloatV(ng, NatOf(D) * Pow10(shift), << >>)
    ELSE IF -shift >= Len(D)
    THEN FloatV(ng, 0, StripTrailingZeros(Zeros(-shift - Len(D)) \o D))
    ELSE FloatV(ng, NatOf(SubSeq(D, 1, Len(D) + shift)),
                StripTrailingZeros(SubSeq(D, Len(D) + shift + 1, Len(D))))

\* the double that mantissa digits D (fl of them after the point) scaled by
\* 10^e denote
ScaleDecimal(ng, D, fl, e) == ScaleDigits(ng, D, e - fl, Len(D) + e - fl)

\* mantissa m and exponent ex, both parsed
Combine(ng, m, ex) ==
    IF m.ok /\ ex.ok
    THEN ScaleDecimal(ng, StripLeadingZeros(m.ip \o m.fp), Len(m.fp), ex.e)
    ELSE ValueErrorV

\* the unsigned decimal body, with its exponent marker at position x
ParseDecimalAt(ng, body, x) ==
    Combine(ng, ParseMantissa(SubSeq(body, 1, x - 1)),
                ParseExponent(SubSeq(body, x + 1, Len(body))))

\* the unsigned part of a float literal
ParseUnsigned(ng, body) ==
    IF Lower(body) \in { <<"i","n","f">>, <<"i","n","f","i","n","i","t","y">> }
    THEN InfV(ng)
    ELSE IF Lower(body) = <<"n","a","n">> THEN NaNV
    ELSE IF Cardinality({ i \in 1..Len(body) : body[i] \in { "e", "E" } }) > 1
    THEN ValueErrorV
    ELSE IF \E i \in 1..Len(body) : body[i] \in { "e", "E" }
    THEN ParseDecimalAt(ng, body, CHOOSE i \in 1..Len(body) : body[i] \in { "e", "E" })
    ELSE Combine(ng, ParseMantissa(body), [ok |-> TRUE, e |-> 0])

\* a float literal without surrounding whitespace
ParseSigned(t) ==
    IF t # << >> /\ t[1] \in { "+", "-" }
    THEN ParseUnsigned(t[1] = "-", Tail(t))
    ELSE ParseUnsigned(FALSE, t)

\* float(s) for a string s
ParseFloat(s) == ParseSigned(Strip(s))

\* float(v)
PyFloat(v) ==
    CASE v.t = "str"   -> ParseFloat(v.s)
      [] v.t = "int"   -> FloatV(v.n < 0, IF v.n < 0 THEN -v.n ELSE v.n, << >>)
      [] v.t \in { "float", "nan", "inf" } -> v
      [] OTHER         -> TypeErrorV

\* int(x) of a float: truncation toward zero; nan and inf cannot be converted
PyIntOfFloat(x) ==
    CASE x.t = "float" -> IntV(IF x.neg THEN -x.ip ELSE x.ip)
      [] x.t = "nan"   -> ValueErrorV
      [] x.t = "inf"   -> OverflowErrorV
      [] OTHER         -> x

(***************************************************************************)
(* VehicleRecord's field validators.                                       *)
(***************************************************************************)
NumericSentinels == { StrV(<< >>), StrV(<<"N","A">>), StrV(<<"N","/","A">>), NoneV }

\* except (ValueError, TypeError): return 0
ExceptValueTypeError(r) == IF r.t \in { "ValueError", "TypeError" } THEN IntV(0) ELSE r

\* handle_numeric_na with the magnitude taken: int(abs(float(v)))
handle_numeric_na_Abs(v) ==
    IF v \in NumericSentinels THEN IntV(0)
    ELSE IF PyIntOfFloat(PyFloat(v)).t = "int" /\ PyIntOfFloat(PyFloat(v)).n < 0
    THEN IntV(-PyIntOfFloat(PyFloat(v)).n)
    ELSE ExceptValueTypeError(PyIntOfFloat(PyFloat(v)))

\* handle_numeric_na with "except: return v": what cannot be parsed is handed
\* on unchanged
handle_numeric_na_PassThrough(v) ==
    IF v \in NumericSentinels THEN IntV(0)
    ELSE IF PyIntOfFloat(PyFloat(v)).t \in { "ValueError", "TypeError" } THEN v
    ELSE PyIntOfFloat(PyFloat(v))

\* handle_numeric_na: an int, or the exception that escapes the validator
handle_numeric_na(v) ==
    IF v \in NumericSentinels THEN IntV(0)
    ELSE ExceptValueTypeError(PyIntOfFloat(PyFloat(v)))

\* normalize_strings
normalize_strings(v) == IF v.t = "str" THEN StrV(Upper(Strip(v.s))) ELSE v

BEV == <<"B","E","V">>
PHEV == <<"P","H","E","V">>
BATTERY_ELECTRIC_VEHICLE ==
    << "B","A","T","T","E","R","Y"," ","E","L","E","C","T","R","I","C"," ",
       "V","E","H","I","C","L","E"," ","(","B","E","V",")" >>
PLUG_IN_HYBRID_ELECTRIC_VEHICLE ==
    << "P","L","U","G","-","I","N"," ","H","Y","B","R","I","D"," ",
       "E","L","E","C","T","R","I","C"," ","V","E","H","I","C","L","E"," ",
       "(","P","H","E","V",")" >>

valid_types == { BATTERY_ELECTRIC_VEHICLE, PLUG_IN_HYBRID_ELECTRIC_VEHICLE, BEV, PHEV }

\* validate_ev_type without the test for the accepted forms
validate_ev_type_NoAccepted(v) ==
    IF Contains(Upper(v), BEV) THEN BATTERY_ELECTRIC_VEHICLE
    ELSE IF Contains(Upper(v), PHEV) THEN PLUG_IN_HYBRID_ELECTRIC_VEHICLE
    ELSE v

\* validate_ev_type, on the text of an already validated str
validate_ev_type(v) ==
    IF v \notin valid_types
    THEN IF Contains(Upper(v), BEV) THEN BATTERY_ELECTRIC_VEHICLE
         ELSE IF Contains(Upper(v), PHEV) THEN PLUG_IN_HYBRID_ELECTRIC_VEHICLE
         ELSE v
    ELSE v

(***************************************************************************)
(* The declared fields of VehicleRecord, in declaration order.             *)
(***************************************************************************)
FieldOrder ==
    << "vin_1_10", "county", "city", "state", "postal_code", "model_year",
       "make", "model", "electric_vehicle_type", "cafv_eligibility",
       "electric_range", "base_msrp", "legislative_district",
       "dol_vehicle_id", "vehicle_location", "electric_utility",
       "census_tract_2020" >>

Fields == { FieldOrder[i] : i \in 1..Len(FieldOrder) }

\* fields declared str = Field(...)
RequiredStrFields ==
    { "vin_1_10", "county", "city", "make", "model", "electric_vehicle_type",
      "cafv_eligibility", "dol_vehicle_id" }

\* fields declared Optional[str] = Field(None)
OptionalStrFields ==
    { "postal_code", "legislative_district", "vehicle_location",
      "electric_utility", "census_tract_2020" }

\* fields declared int = Field(default=0, ge=0)
NumericFields == { "electric_range", "base_msrp" }

\* fields of the 'before' validator normalize_strings
NormalizedStrFields == { "make", "model", "electric_vehicle_type", "county", "city" }

MinModelYear == 1997
MaxModelYear == 2026

Ok(v) == [ok |-> TRUE, v |-> v]
Err(f, ty) == [ok |-> FALSE, err |-> [loc |-> f, type |-> ty]]

\* pydantic's str: only a str is a valid string (lax mode does not coerce numbers)
CoreStr(f, v) == IF v.t = "str" THEN Ok(v) ELSE Err(f, "string_type")

\* pydantic's Optional[str]
CoreOptionalStr(f, v) == IF v.t = "none" THEN Ok(v) ELSE CoreStr(f, v)

\* the int a parsed digits[.zeros] text denotes
IntOfMantissa(f, ng, m) ==
    IF m.ok /\ m.ip # << >> /\ StripTrailingZeros(m.fp) = << >>
    THEN Ok(IntV(IF ng THEN -NatOf(m.ip) ELSE NatOf(m.ip)))
    ELSE Err(f, "int_parsing")

\* a signed integer literal without surrounding whitespace
SignedAsInt(f, t) ==
    IF t # << >> /\ t[1] \in { "+", "-" }
    THEN IntOfMantissa(f, t[1] = "-", ParseMantissa(Tail(t)))
    ELSE IntOfMantissa(f, FALSE, ParseMantissa(t))

\* pydantic's lax str -> int: [ws] [sign] digits [. zeros] [ws]
StrAsInt(f, s) == SignedAsInt(f, Strip(s))

\* pydantic's lax int
CoreInt(f, v) ==
    CASE v.t = "int"   -> Ok(v)
      [] v.t = "str"   -> StrAsInt(f, v.s)
      [] v.t = "float" -> IF v.fd = << >>
                          THEN Ok(IntV(IF v.neg THEN -v.ip ELSE v.ip))
                          ELSE Err(f, "int_from_float")
      [] v.t \in { "nan", "inf" } -> Err(f, "finite_number")
      [] OTHER         -> Err(f, "int_type")

\* Field(gt=lo, lt=hi): both bounds exclusive
CheckRange_Exclusive(f, r, lo, hi) ==
    IF ~r.ok THEN r
    ELSE IF r.v.n <= lo THEN Err(f, "greater_than")
    ELSE IF hi # NoneV /\ r.v.n >= hi.n THEN Err(f, "less_than")
    ELSE r

\* Field(ge=lo, le=hi) on a parsed int; hi = NoneV when no upper bound is declared
CheckRange(f, r, lo, hi) ==
    IF ~r.ok THEN r
    ELSE IF r.v.n < lo THEN Err(f, "greater_than_equal")
    ELSE IF hi # NoneV /\ r.v.n > hi.n THEN Err(f, "less_than_equal")
    ELSE r

\* the 'after' validator of a field, applied to a successfully validated str
AfterStr(f, r) ==
    IF r.ok /\ f = "electric_vehicle_type"
    THEN Ok(StrV(validate_ev_type(r.v.s)))
    ELSE r

\* a required str field: 'before' validator, core validation, 'after' validator
ValidateRequiredStr(f, v) ==
    AfterStr(f, CoreStr(f, IF f \in NormalizedStrFields THEN normalize_strings(v) ELSE v))

\* an int field after its 'before' validator returned b (or raised it)
NumericAfterBefore(f, b) ==
    IF IsException(b) THEN [ok |-> FALSE, raise |-> b]
    ELSE CheckRange(f, CoreInt(f, b), 0, NoneV)

\* electric_range / base_msrp: handle_numeric_na, then int with ge=0
ValidateNumeric(f, v) == NumericAfterBefore(f, handle_numeric_na(v))

\* one field of the VehicleRecord constructor: a value, an error line, or a raise
ValidateField(f, v) ==
    IF v = Absent
    THEN IF f \in RequiredStrFields \/ f = "model_year" THEN Err(f, "missing")
         ELSE IF f = "state" THEN Ok(StrV(<<"W","A">>))
         ELSE IF f \in NumericFields THEN Ok(IntV(0))
         ELSE Ok(NoneV)
    ELSE IF f \in RequiredStrFields THEN ValidateRequiredStr(f, v)
    ELSE IF f = "state" THEN CoreStr(f, v)
    ELSE IF f \in OptionalStrFields THEN CoreOptionalStr(f, v)
    ELSE IF f = "model_year"
         THEN CheckRange(f, CoreInt(f, v), MinModelYear, IntV(MaxModelYear))
    ELSE ValidateNumeric(f, v)

Raises(r) == ~r.ok /\ "raise" \in DOMAIN r

RECURSIVE ErrorLines(_, _)
\* the error lines of the field outcomes from position i on, in declaration order
ErrorLines(vals, i) ==
    IF i > Len(FieldOrder) THEN << >>
    ELSE (IF vals[FieldOrder[i]].ok THEN << >> ELSE << vals[FieldOrder[i]].err >>)
         \o ErrorLines(vals, i + 1)

\* the constructor's outcome from the outcomes of its fields: the first raise
\* in declaration order escapes; else the error lines make a ValidationError
Construct(vals) ==
    IF \E f \in NumericFields : Raises(vals[f])
    THEN [kind |-> "raise",
          exc  |-> IF Raises(vals["electric_range"])
                   THEN vals["electric_range"].raise ELSE vals["base_msrp"].raise]
    ELSE IF \E f \in Fields : ~vals[f].ok
    THEN [kind |-> "ValidationError", errors |-> ErrorLines(vals, 1)]
    ELSE [kind |-> "model", rec |-> [f \in Fields |-> vals[f].v]]

\* the VehicleRecord constructor: the model, a ValidationError, or another exception
VehicleRecord(record) == Construct([f \in Fields |-> ValidateField(f, record[f])])

\* try: return True, validated, ""  except ValidationError: return False, None, str(e)
TryExcept(m) ==
    CASE m.kind = "model" ->
           [ret |-> TRUE, is_valid |-> TRUE, validated |-> m.rec, error_msg |-> << >>]
      [] m.kind = "ValidationError" ->
           [ret |-> TRUE, is_valid |-> FALSE, validated |-> NoneV, error_msg |-> m.errors]
      [] OTHER -> [ret |-> FALSE, exc |-> m.exc]

\* validate_record: (is_valid, validated_record, error_msg), or the exception
\* that escapes; error_msg is the text of the ValidationError: one line per
\* failing field, naming it
validate_record(record) == TryExcept(VehicleRecord(record))

(***************************************************************************)
(* Inputs of the validator: the record of test_validate_record_success     *)
(* with one or two of its fields replaced by a sample value, and every    *)
(* vehicle-type text of up to MaxTypeLen characters over TypeChars.        *)
(***************************************************************************)
MaxTypeLen == 4

S_KING == <<"K","I","N","G">>
S_SEATTLE == <<"S","E","A","T","T","L","E">>
S_TESLA == <<"T","E","S","L","A">>
S_MODEL_S == <<"M","O","D","E","L"," ","S">>
S_VIN == <<"5","Y","J","S","A","1","E","2","6","K">>
S_Eligible == <<"E","l","i","g","i","b","l","e">>
S_98101 == <<"9","8","1","0","1">>
S_12345 == <<"1","2","3","4","5">>
S_43 == <<"4","3">>
S_nan == <<"n","a","n">>
S_None == <<"N","o","n","e">>

BaseRecord ==
    [ vin_1_10 |-> StrV(S_VIN), county |-> StrV(S_KING), city |-> StrV(S_SEATTLE),
      state |-> StrV(<<"W","A">>), postal_code |-> StrV(S_98101),
      model_year |-> IntV(2023), make |-> StrV(S_TESLA), model |-> StrV(S_MODEL_S),
      electric_vehicle_type |-> StrV(BATTERY_ELECTRIC_VEHICLE),
      cafv_eligibility |-> StrV(S_Eligible), electric_range |-> IntV(405),
      base_msrp |-> IntV(0), legislative_district |-> StrV(S_43),
      dol_vehicle_id |-> StrV(S_12345), vehicle_location |-> StrV(<< >>),
      electric_utility |-> StrV(<< >>), census_tract_2020 |-> StrV(<< >>) ]

TextSamples ==
    { Absent, NoneV, NaNV, IntV(7), StrV(<< >>), StrV(<<" ">>),
      StrV(<<" ","k","i","n","g","\t">>) }

TypeSamples ==
    { Absent, NoneV, StrV(<< >>), StrV(<<" "," ">>),
      StrV(<<"b","e","v">>), StrV(<<" ","P","h","e","v"," ">>),
      StrV(Lower(BATTERY_ELECTRIC_VEHICLE)),
      StrV(PLUG_IN_HYBRID_ELECTRIC_VEHICLE \o <<" ">>),
      StrV(<<"p","h","e","v","/","b","e","v">>),
      StrV(<<"B","E","V"," ","2">>),
      StrV(<<"m","y"," ","p","h","e","v">>),
      StrV(<<"H","y","b","r","i","d">>) }

YearSamples ==
    { Absent, NoneV, NaNV, InfV(FALSE),
      IntV(1996), IntV(1997), IntV(2026), IntV(2027), IntV(-2023), IntV(0),
      StrV(<<"2","0","2","3">>), StrV(<<"1","9","9","0">>),
      StrV(<<"2","0","2","3",".","5">>), StrV(<<"a","b","c">>), StrV(<< >>),
      FloatV(FALSE, 2023, << >>), FloatV(FALSE, 2023, <<"5">>),
      FloatV(FALSE, 2030, << >>) }

NumericSamples ==
    { Absent, NoneV, NaNV, InfV(FALSE), InfV(TRUE),
      IntV(0), IntV(-5), IntV(-1),
      FloatV(TRUE, 0, <<"5">>), FloatV(FALSE, 405, <<"7">>), FloatV(TRUE, 3, <<"2">>),
      StrV(<< >>), StrV(<<"N","A">>), StrV(<<"N","/","A">>), StrV(<<" ","N","A"," ">>),
      StrV(<<"a","b","c">>), StrV(S_nan),
      StrV(<<"-","5">>), StrV(<<"1","2",".","7">>), StrV(<<"-","0",".","5">>),
      StrV(<<"i","n","f">>), StrV(<<"1","e","9","9","9">>), StrV(<<"-","1","e","2">>) }

OptionalSamples == { Absent, NoneV, NaNV, IntV(98101), StrV(<< >>) }

Samples(f) ==
    IF f = "electric_vehicle_type" THEN TypeSamples
    ELSE IF f \in RequiredStrFields THEN TextSamples
    ELSE IF f = "model_year" THEN YearSamples
    ELSE IF f \in NumericFields THEN NumericSamples
    ELSE OptionalSamples

TypeChars == { "B", "e", "V", "P", "h", " " }

RECURSIVE Texts(_)
\* every text of at most n characters over TypeChars
Texts(n) ==
    IF n = 0 THEN { << >> }
    ELSE LET T == Texts(n - 1)
         IN  T \cup { Append(t, c) : t \in T, c \in TypeChars }

(***************************************************************************)
(* The normaliser: transform's column renaming, fillna and conversion of   *)
(* the identifier columns to text, applied to one row of the DataFrame.    *)
(* A row is a function from its column names to cell values.               *)
(***************************************************************************)
\* the keys of column_mapping, in the order of the fields they map to
RawHeaders ==
    << "VIN (1-10)", "County", "City", "State", "Postal Code", "Model Year",
       "Make", "Model", "Electric Vehicle Type",
       "Clean Alternative Fuel Vehicle (CAFV) Eligibility", "Electric Range",
       "Base MSRP", "Legislative District", "DOL Vehicle ID",
       "Vehicle Location", "Electric Utility", "2020 Census Tract" >>

\* the column_mapping dict
column_mapping ==
    [c \in { RawHeaders[i] : i \in 1..Len(RawHeaders) } |->
        FieldOrder[CHOOSE i \in 1..Len(RawHeaders) : RawHeaders[i] = c]]

\* the new name of one column: names that are no key of the dict are kept
Rename(c) == IF c \in DOMAIN column_mapping THEN column_mapping[c] ELSE c

\* normalize_column_names: df.rename(columns=column_mapping)
normalize_column_names(row) ==
    [c \in { Rename(k) : k \in DOMAIN row } |->
        row[CHOOSE k \in DOMAIN row : Rename(k) = c]]

\* pandas' isnull(): NaN and None
IsNull(v) == v.t \in { "nan", "none" }

\* the columns of the fillna dict that are filled with ''
FilledWithEmpty ==
    { "postal_code", "legislative_district", "vehicle_location",
      "electric_utility", "census_tract_2020" }

\* the columns of the fillna dict that are filled with 0
FilledWithZero == { "electric_range", "base_msrp" }

\* df.fillna({...}): only the listed columns, only the null cells
fillna(row) ==
    [c \in DOMAIN row |->
        IF IsNull(row[c]) /\ c \in FilledWithEmpty THEN StrV(<< >>)
        ELSE IF IsNull(row[c]) /\ c \in FilledWithZero THEN IntV(0)
        ELSE row[c]]

\* repr of a finite float
FloatToStr(v) ==
    (IF v.neg THEN << "-" >> ELSE << >>) \o NatToStr(v.ip) \o << "." >>
        \o (IF v.fd = << >> THEN << "0" >> ELSE v.fd)

\* astype(str) of one cell: str(x), so None becomes 'None' and NaN 'nan'
astype_str(v) ==
    CASE v.t = "str"   -> v
      [] v.t = "int"   -> StrV(IntToStr(v.n))
      [] v.t = "float" -> StrV(FloatToStr(v))
      [] v.t = "nan"   -> StrV(S_nan)
      [] v.t = "none"  -> StrV(S_None)
      [] v.t = "inf"   -> StrV(IF v.neg THEN <<"-","i","n","f">> ELSE <<"i","n","f">>)

\* Series.replace(a, b) on one cell
replace(v, a, b) == IF v = a THEN b ELSE v

string_fields == { "postal_code", "legislative_district", "dol_vehicle_id", "census_tract_2020" }

\* df[field].astype(str).replace('nan', '').replace('', None) for the string_fields
convert_string_fields(row) ==
    [c \in DOMAIN row |->
        IF c \in string_fields
        THEN replace(replace(astype_str(row[c]), StrV(S_nan), StrV(<< >>)), StrV(<< >>), NoneV)
        ELSE row[c]]

\* the normalisation steps of transform, on one row
NormalizeRow(row) == convert_string_fields(fillna(normalize_column_names(row)))

\* one entry of df.to_dict('records') as the constructor's keyword arguments
\* (a key the dict lacks is Absent; keys that are no field are ignored)
ToRecord(row) == [f \in Fields |-> IF f \in DOMAIN row THEN row[f] ELSE Absent]

(***************************************************************************)
(* Inputs of the normaliser: the first row of the test fixture with one or *)
(* two cells replaced, under the raw headers or the canonical names.       *)
(***************************************************************************)
RawValues ==
    << StrV(S_VIN), StrV(<<"K","i","n","g">>), StrV(<<"S","e","a","t","t","l","e">>),
       StrV(<<"W","A">>), IntV(98101), IntV(2023), StrV(S_TESLA), StrV(S_MODEL_S),
       StrV(<<"B","a","t","t","e","r","y"," ","E","l","e","c","t","r","i","c"," ",
              "V","e","h","i","c","l","e"," ","(","B","E","V",")">>),
       StrV(S_Eligible), IntV(405), IntV(0), FloatV(FALSE, 43, << >>), IntV(12345),
       NaNV, StrV(<<"P","S","E">>), NaNV >>

\* the fixture row under the raw headers
RawRow ==
    [c \in { RawHeaders[i] : i \in 1..Len(RawHeaders) } |->
        RawValues[CHOOSE i \in 1..Len(RawHeaders) : RawHeaders[i] = c]]

CellSamples ==
    { NaNV, NoneV, StrV(<< >>), StrV(S_nan), StrV(S_None), StrV(S_43),
      IntV(7), FloatV(FALSE, 98101, << >>) }

(***************************************************************************)
(* transform: normalise the DataFrame, validate row by row, build the      *)
(* quality report.  A DataFrame is the sequence of its rows, which all     *)
(* have the same columns.                                                  *)
(***************************************************************************)
\* validation_errors[:100]
ErrorsKept == 100

\* the columns with a null cell, each with the number of its null cells
analyze_missing_values(frame) ==
    [c \in { k \in UNION { DOMAIN frame[j] : j \in 1..Len(frame) } :
                 \E j \in 1..Len(frame) : IsNull(frame[j][k]) } |->
        Cardinality({ j \in 1..Len(frame) : IsNull(frame[j][c]) })]

\* record.get('vin_1_10', 'UNKNOWN')
GetVin(rec) ==
    IF rec["vin_1_10"] = Absent
    THEN StrV(<<"U","N","K","N","O","W","N">>)
    ELSE rec["vin_1_10"]

\* validate_record(record) for every record, with what the loop body reads of
\* the record (enumerate's idx counts from 0)
Outcomes(recs) ==
    SubSeq([j \in 1..Len(recs) |->
               [record_index |-> j - 1, vin |-> GetVin(recs[j]),
                r |-> validate_record(recs[j])]],
           1, Len(recs))

\* the number of iterations the loop completes: an exception that escapes
\* validate_record ends the loop, and transform, at that record
Completed(outs) ==
    IF \A j \in 1..Len(outs) : outs[j].r.ret THEN Len(outs)
    ELSE (CHOOSE j \in 1..Len(outs) :
              ~outs[j].r.ret /\ \A k \in 1..(j - 1) : outs[k].r.ret) - 1

IsValid(o) == o.r.is_valid

IsInvalid(o) == ~o.r.is_valid

\* valid_records.append(validated_record.model_dump()), in loop order
AppendedValid(sel) == [k \in 1..Len(sel) |-> sel[k].r.validated]

\* validation_errors.append({'record_index': idx, 'vin': ..., 'error': error_msg})
AppendedErrors(sel) ==
    [k \in 1..Len(sel) |->
        [record_index |-> sel[k].record_index, vin |-> sel[k].vin,
         error |-> sel[k].r.error_msg]]

\* self.validation_errors.append(error_msg)
AppendedMessages(sel) == [k \in 1..Len(sel) |-> sel[k].r.error_msg]

\* the lists after the loop ran done iterations, and the exception that
\* ended it (NoneV when it ran to the end)
LoopResult(outs, done, self_errors) ==
    [ valid_records |-> AppendedValid(SelectSeq(SubSeq(outs, 1, done), IsValid)),
      validation_errors |-> AppendedErrors(SelectSeq(SubSeq(outs, 1, done), IsInvalid)),
      self_validation_errors |->
          self_errors \o AppendedMessages(SelectSeq(SubSeq(outs, 1, done), IsInvalid)),
      raised |-> IF done < Len(outs) THEN outs[done + 1].r.exc ELSE NoneV ]

\* for idx, record in enumerate(records): ...
ValidateLoop(outs, self_errors) == LoopResult(outs, Completed(outs), self_errors)

\* validation_errors[:99]: one error fewer is kept
FirstErrors_OneLess(errors) ==
    SubSeq(errors, 1, IF Len(errors) < ErrorsKept - 1 THEN Len(errors) ELSE ErrorsKept - 1)

\* validation_errors[:100]
FirstErrors(errors) ==
    SubSeq(errors, 1, IF Len(errors) < ErrorsKept THEN Len(errors) ELSE ErrorsKept)

\* DataQualityReport(...)
DataQualityReport(total, acc, missing) ==
    [ total_records     |-> total,
      valid_records     |-> Len(acc.valid_records),
      invalid_records   |-> Len(acc.validation_errors),
      missing_values    |-> missing,
      validation_errors |-> FirstErrors(acc.validation_errors) ]

\* df.to_dict('records') of the normalised DataFrame
ToRecords(frame) ==
    SubSeq([j \in 1..Len(frame) |-> ToRecord(NormalizeRow(frame[j]))], 1, Len(frame))

\* the DataFrame after normalize_column_names
Renamed(frame) ==
    SubSeq([j \in 1..Len(frame) |-> normalize_column_names(frame[j])], 1, Len(frame))

(***************************************************************************)
(* Inputs of transform: every DataFrame of at most MaxPattern sample rows, *)
(* and long ones made of ErrorsKept - 1 or ErrorsKept repetitions of a     *)
(* pattern with one invalid row, followed by at most MaxTail sample rows.  *)
(***************************************************************************)
MaxPattern == 2
MaxTail == 1

Row_Ok1 == RawRow

Row_Ok2 ==
    [RawRow EXCEPT !["VIN (1-10)"] = StrV(<<"1","G","1","R","D","6","E","4","4","D">>),
                   !["Make"] = StrV(<<"C","h","e","v","r","o","l","e","t">>),
                   !["Model"] = StrV(<<"B","o","l","t"," ","E","V">>),
                   !["Model Year"] = IntV(2022),
                   !["Electric Range"] = NaNV,
                   !["Postal Code"] = NaNV]

Row_BadYear ==
    [RawRow EXCEPT !["VIN (1-10)"] = StrV(<<"O","L","D">>), !["Model Year"] = IntV(1990)]

Row_NoDol ==
    [RawRow EXCEPT !["VIN (1-10)"] = NaNV, !["DOL Vehicle ID"] = NaNV]

Row_Inf ==
    [RawRow EXCEPT !["Electric Range"] = InfV(FALSE)]

RowSamples == { Row_Ok1, Row_Ok2, Row_BadYear, Row_NoDol, Row_Inf }

RECURSIVE Frames(_)
\* the sequences of at most k sample rows
Frames(k) ==
    IF k = 0 THEN { << >> }
    ELSE Frames(k - 1) \cup
         { Append(p, r) : p \in { q \in Frames(k - 1) : Len(q) = k - 1 }, r \in RowSamples }

\* the patterns the long DataFrames repeat: one invalid row each
LongPatterns == { << Row_BadYear >>, << Row_Ok2, Row_NoDol >>, << Row_NoDol, Row_Ok1 >> }

\* m repetitions of pattern p
Repeat(p, m) == [j \in 1..(m * Len(p)) |-> p[((j - 1) % Len(p)) + 1]]

(***************************************************************************)
(* load: insert the records batch by batch, then build the indexes.  A     *)
(* document is named by its position in records.  insert_many with         *)
(* ordered=False attempts every document of the batch and then raises      *)
(* BulkWriteError when one of them failed.                                 *)
(***************************************************************************)
MaxRecords == 4
MaxBatch == 3

\* a document that was in the collection before the load
OldDocument == 0

\* records[i + 1:i + batch_size]
Batch_SkipFirst(i, size, n) == { d \in 1..n : d > i + 1 /\ d <= i + size }

\* records[i:i + batch_size], as the set of its positions (i counts from 0)
Batch(i, size, n) == { d \in 1..n : d > i /\ d <= i + size }

(***************************************************************************)
(* The query API over the vehicles collection.  A stored document is       *)
(* modelled by the fields the queries read; the collection is the sequence *)
(* of its documents.                                                       *)
(***************************************************************************)
MaxDocs == 3
MaxPage == 2

Doc(county, make, model, year, type, range) ==
    [ county |-> county, make |-> make, model |-> model, model_year |-> year,
      electric_vehicle_type |-> type, electric_range |-> range ]

S_CHEVROLET == <<"C","H","E","V","R","O","L","E","T">>

\* documents as the pipeline stores them: validated, upper-cased
DocSamples ==
    { Doc(S_KING, S_TESLA, S_MODEL_S, 2023, BATTERY_ELECTRIC_VEHICLE, 405),
      Doc(S_KING, S_CHEVROLET, <<"B","O","L","T"," ","E","V">>, 2023,
          BATTERY_ELECTRIC_VEHICLE, 259),
      Doc(<<"P","I","E","R","C","E">>, S_CHEVROLET, <<"V","O","L","T">>, 2019,
          PLUG_IN_HYBRID_ELECTRIC_VEHICLE, 53) }

RECURSIVE Collections(_)
\* the collections of at most k documents
Collections(k) ==
    IF k = 0 THEN { << >> }
    ELSE Collections(k - 1) \cup
         { Append(c, d) : c \in { x \in Collections(k - 1) : Len(x) = k - 1 },
                          d \in DocSamples }

\* one clause {field: val}, {field: {"$in": val}}, {"$gte": val}, {"$lte": val}
\* of a query document, on one stored document
Sat(doc, cl) ==
    CASE cl.op = "eq"  -> doc[cl.field] = cl.val
      [] cl.op = "in"  -> doc[cl.field] \in cl.val
      [] cl.op = "gte" -> doc[cl.field] >= cl.val
      [] cl.op = "lte" -> doc[cl.field] <= cl.val

\* a query document is the sequence of its clauses, all of which must hold
Matches(doc, query) == \A k \in 1..Len(query) : Sat(doc, query[k])

\* collection.find(query) / the $match stage: the matching documents
find(coll, query) == SelectSeq(coll, LAMBDA d : Matches(d, query))

\* collection.count_documents(query)
count_documents(coll, query) == Len(find(coll, query))

\* the orders a sort may return the members of S in: every arrangement that
\* respects Le; the store does not fix the order of members that tie
Orderings(S, Le(_, _)) ==
    { q \in [1..Cardinality(S) -> S] :
          /\ \A i, j \in 1..Cardinality(S) : i # j => q[i] # q[j]
          /\ \A i \in 1..(Cardinality(S) - 1) : Le(q[i], q[i + 1]) }

\* "$field" of a document: null when the document has no such field
FieldOf(doc, f) == IF f \in DOMAIN doc THEN doc[f] ELSE NoneV

\* the $group stage on "$f": one group per distinct value, with its members
\* in the order the stage met them
GroupBy(docs, f) ==
    { [ id |-> v,
        count |-> Len(SelectSeq(docs, LAMBDA d : FieldOf(d, f) = v)),
        members |-> SelectSeq(docs, LAMBDA d : FieldOf(d, f) = v) ] :
      v \in { FieldOf(docs[k], f) : k \in 1..Len(docs) } }

\* {"$sort": {"count": -1}} with ascending order
CountDesc_Asc(g, h) == g.count <= h.count

\* {"$sort": {"count": -1}}
CountDesc(g, h) == g.count >= h.count

\* the binary order of the characters of the stored texts
Collation ==
    [ c \in { " " } \cup { Digits[i] : i \in 1..10 } \cup { UpperLetters[i] : i \in 1..26 } |->
        IF c = " " THEN 32
        ELSE IF IsDigit(c) THEN 48 + DigitVal(c)
        ELSE 64 + CHOOSE i \in 1..26 : UpperLetters[i] = c ]

\* a <= b in the store's order of strings
StrLe(a, b) ==
    \/ a = b
    \/ \E i \in 1..Len(b) :
           /\ \A k \in 1..(i - 1) : k <= Len(a) /\ a[k] = b[k]
           /\ i - 1 <= Len(a)
           /\ (i <= Len(a) => Collation[a[i]] < Collation[b[i]])

\* the order of .sort(sort_by, sort_direction) on two documents
KeyLe(d, e, sort_by, sort_direction) ==
    IF sort_by = "model_year"
    THEN IF sort_direction = 1 THEN d[sort_by] <= e[sort_by] ELSE d[sort_by] >= e[sort_by]
    ELSE IF sort_direction = 1 THEN StrLe(d[sort_by], e[sort_by])
         ELSE StrLe(e[sort_by], d[sort_by])

\* cursor.sort(sort_by, sort_direction): the orders the cursor may yield
Sorted(found, sort_by, sort_direction) ==
    { [k \in 1..Len(found) |-> found[q[k]]] :
      q \in Orderings(1..Len(found),
                      LAMBDA i, j : KeyLe(found[i], found[j], sort_by, sort_direction)) }

\* cursor.skip(skip).limit(limit)
skip_limit(s, skip, limit) ==
    SubSeq(s, skip + 1, IF Len(s) < skip + limit THEN Len(s) ELSE skip + limit)

\* total_count // page_size
Ceil_Floor(n, d) == n \div d

\* math.ceil(total_count / page_size)
Ceil(n, d) == IF n % d = 0 THEN n \div d ELSE (n \div d) + 1

\* what runs inside a handler's try block ends with: a return, a raised
\* HTTPException(404), or another exception raised by the store
NotFound == [kind |-> "HTTPException", status |-> 404]
StoreFault == [kind |-> "Exception"]

\* every exception reported as a server error
Handle_NoReraise(out) ==
    IF out.kind \in { "HTTPException", "Exception" } THEN [status |-> 500] ELSE out

\* except HTTPException: raise / except Exception: raise HTTPException(500)
Handle(out) ==
    CASE out.kind = "HTTPException" -> [status |-> out.status]
      [] out.kind = "Exception"     -> [status |-> 500]
      [] OTHER                      -> out

(***************************************************************************)
(* Numbers.  The store and Python compute averages, percentages and rates  *)
(* in binary floating point (53-bit significands); the model keeps a       *)
(* quotient as its numerator and denominator and a rounded result as its   *)
(* number of hundredths.                                                   *)
(***************************************************************************)
MantissaBits == 52

RECURSIVE ScaleD(_, _)
\* d doubled until n / d < 2
ScaleD(n, d) == IF n >= 2 * d THEN ScaleD(n, 2 * d) ELSE d

RECURSIVE ScaleN(_, _)
\* n doubled until n / d >= 1
ScaleN(n, d) == IF n < d THEN ScaleN(2 * n, d) ELSE n

RECURSIVE Doublings(_, _, _, _)
\* the remainder and the last digit after k more binary digits of r / d
Doublings(r, d, k, bit) ==
    IF k = 0 THEN << r, bit >>
    ELSE IF 2 * r >= d THEN Doublings(2 * r - d, d, k - 1, 1)
    ELSE Doublings(2 * r, d, k - 1, 0)

\* round-to-nearest-even of the digits after the last kept one: -1 when the
\* double is below the exact quotient, 1 when above, 0 when equal
RoundingOf(rb, d) ==
    IF rb[1] = 0 THEN 0
    ELSE IF 2 * rb[1] < d THEN -1
    ELSE IF 2 * rb[1] > d THEN 1
    ELSE IF rb[2] = 0 THEN -1 ELSE 1

\* the sign of (the double n / d) - (the exact n / d), for n >= 0, d > 0
FloatErrSign(n, d) ==
    IF n = 0 THEN 0
    ELSE RoundingOf(Doublings(ScaleN(n, d) - ScaleD(n, d), ScaleD(n, d), MantissaBits, 1),
                    ScaleD(n, d))

\* a double exactly half way between two hundredths goes to the even one; a
\* double beside the half-way point goes to the hundredth on its side
RoundTie(q, s) ==
    IF s < 0 THEN q
    ELSE IF s > 0 THEN q + 1
    ELSE IF q % 2 = 0 THEN q ELSE q + 1

\* round(x, 2) in hundredths, x the double of n / d with error sign s:
\* the decimal nearest to the double
round2(n, d, s) ==
    IF 2 * ((100 * n) % d) < d THEN (100 * n) \div d
    ELSE IF 2 * ((100 * n) % d) > d THEN ((100 * n) \div d) + 1
    ELSE RoundTie((100 * n) \div d, s)

\* round(x, 2) of a quotient of either sign
SignedRound2(n, d) ==
    IF n < 0 THEN 0 - round2(0 - n, d, FloatErrSign(0 - n, d))
    ELSE round2(n, d, FloatErrSign(n, d))

\* round(doc["avg_range"], 2): $avg is the sum over the count
Average(sum, count) == round2(sum, count, FloatErrSign(sum, count))

\* the count as a fraction of the total, not a percentage
Percent_Fraction(count, total) ==
    IF total > 0 THEN round2(count, total, FloatErrSign(count, total)) ELSE 0

\* round((count / total * 100) if total > 0 else 0, 2); the product by 100
\* is exact wherever the percentage is half way between two hundredths, as
\* long as total < 160
Percent(count, total) ==
    IF total > 0 THEN round2(100 * count, total, FloatErrSign(count, total)) ELSE 0

(***************************************************************************)
(* The handlers.  Each gives the set of outcomes of its try block on the   *)
(* documents its query reads.  An optional parameter is the empty set      *)
(* (None) or the set of its one value; a dict is the set of its items.     *)
(***************************************************************************)
\* query = {"county": county_name.upper()}; if model_year: query["model_year"] = model_year
CountyQuery_NoUpper(req) ==
    << [field |-> "county", op |-> "eq", val |-> req.county_name] >>
    \o (IF \E y \in req.model_year : y # 0
        THEN << [field |-> "model_year", op |-> "eq",
                 val |-> CHOOSE y \in req.model_year : TRUE] >>
        ELSE << >>)

CountyQuery(req) ==
    << [field |-> "county", op |-> "eq", val |-> Upper(req.county_name)] >>
    \o (IF \E y \in req.model_year : y # 0
        THEN << [field |-> "model_year", op |-> "eq",
                 val |-> CHOOSE y \in req.model_year : TRUE] >>
        ELSE << >>)

\* get_vehicles_by_county after the count: the page and the response
CountyFind(coll, req, total_count) ==
    { [ kind |-> "return", status |-> 200,
        county |-> Upper(req.county_name),
        total_count |-> total_count,
        page |-> req.page,
        page_size |-> req.page_size,
        total_pages |-> Ceil(total_count, req.page_size),
        vehicles |-> skip_limit(cursor, (req.page - 1) * req.page_size, req.page_size) ] :
      cursor \in Sorted(find(coll, CountyQuery(req)), req.sort_by,
                        IF req.sort_order = "desc" THEN -1 ELSE 1) }

\* the response of get_models_by_make from the sorted groups
MakeModelsResponse(req, results) ==
    IF results = << >> THEN NotFound
    ELSE [ kind |-> "return", status |-> 200,
           make |-> Upper(req.make),
           total_models |-> Len(results),
           most_popular_model |-> results[1].id,
           most_popular_count |-> results[1].count,
           models |-> [k \in 1..Len(results) |->
                          [model |-> results[k].id, count |-> results[k].count]] ]

\* get_models_by_make: $match make, $group by model, $sort by count
get_models_by_make(coll, req) ==
    { MakeModelsResponse(req, results) :
      results \in Orderings(
          GroupBy(find(coll, << [field |-> "make", op |-> "eq", val |-> Upper(req.make)] >>),
                  "model"),
          CountDesc) }

\* [x.upper() for x in l]
UpperAll(l) == { Upper(l[k]) : k \in 1..Len(l) }

\* the clause {field: {"$in": [...]}} of a list filter that is not None or empty
InClause(field, l) ==
    IF \E x \in l : x # << >>
    THEN << [field |-> field, op |-> "in", val |-> UpperAll(CHOOSE x \in l : TRUE)] >>
    ELSE << >>

\* the clause {"model_year": {op: d[key]}} of a model_years dict holding key
YearClause(d, key, op) ==
    IF \E it \in d : it[1] = key
    THEN << [field |-> "model_year", op |-> op,
             val |-> (CHOOSE it \in d : it[1] = key)[2]] >>
    ELSE << >>

\* the match_stage analyze_vehicles builds from request.filters
MatchStage_NoCounties(filters) ==
    InClause("make", filters.makes)
    \o (IF \E d \in filters.model_years : d # {}
        THEN YearClause(CHOOSE d \in filters.model_years : TRUE, "start", "gte")
             \o YearClause(CHOOSE d \in filters.model_years : TRUE, "end", "lte")
        ELSE << >>)
    \o (IF \E r \in filters.min_electric_range : r # 0
        THEN << [field |-> "electric_range", op |-> "gte",
                 val |-> CHOOSE r \in filters.min_electric_range : TRUE] >>
        ELSE << >>)
    \o InClause("electric_vehicle_type", filters.vehicle_types)

MatchStage(filters) ==
    InClause("make", filters.makes)
    \o (IF \E d \in filters.model_years : d # {}
        THEN YearClause(CHOOSE d \in filters.model_years : TRUE, "start", "gte")
             \o YearClause(CHOOSE d \in filters.model_years : TRUE, "end", "lte")
        ELSE << >>)
    \o (IF \E r \in filters.min_electric_range : r # 0
        THEN << [field |-> "electric_range", op |-> "gte",
                 val |-> CHOOSE r \in filters.min_electric_range : TRUE] >>
        ELSE << >>)
    \o InClause("county", filters.counties)
    \o InClause("electric_vehicle_type", filters.vehicle_types)

\* str(doc["_id"]) of a group of "$group_by": the field's text, the digits of
\* a model year, 'None' for the null _id of a field no document has
GroupValue(id, group_by) ==
    IF group_by = "model_year" THEN IntToStr(id)
    ELSE IF group_by \in { "county", "make" } THEN id
    ELSE S_None

RECURSIVE SumCounts(_, _)
\* total_matching += doc["count"] over results[k..]
SumCounts(results, k) ==
    IF k > Len(results) THEN 0 ELSE results[k].count + SumCounts(results, k + 1)

\* key = f"{v['make']} {v['model']}"
Key(v) == v.make \o << " " >> \o v.model

\* vehicle_counts[key] once the loop over doc["vehicles"] is over
KeyCount(vehicles, key) == Len(SelectSeq(vehicles, LAMBDA v : Key(v) = key))

\* max(vehicle_counts.items(), key=lambda x: x[1])[0]: the first key, in the
\* order the dict got its keys, whose count no other exceeds
most_common(vehicles) ==
    Key(vehicles[CHOOSE i \in 1..Len(vehicles) :
            /\ \A j \in 1..Len(vehicles) :
                   KeyCount(vehicles, Key(vehicles[j])) <= KeyCount(vehicles, Key(vehicles[i]))
            /\ \A j \in 1..(i - 1) :
                   KeyCount(vehicles, Key(vehicles[j])) < KeyCount(vehicles, Key(vehicles[i]))])

\* the response of analyze_vehicles from the sorted groups
AnalyzeResponse(req, results) ==
    IF results = << >> THEN NotFound
    ELSE [ kind |-> "return", status |-> 200,
           group_by |-> req.group_by,
           total_matching_vehicles |-> SumCounts(results, 1),
           groups |-> [k \in 1..Len(results) |->
                          [ group_value |-> GroupValue(results[k].id, req.group_by),
                            count |-> results[k].count,
                            most_common_vehicle |-> most_common(results[k].members) ]] ]

\* analyze_vehicles: $match match_stage, $group by "$<group_by>", $sort by count
analyze_vehicles(coll, req) ==
    { AnalyzeResponse(req, results) :
      results \in Orderings(GroupBy(find(coll, MatchStage(req.filters)), req.group_by),
                            CountDesc) }

\* every document counted, whatever its vehicle type
RegexCount_Any(docs, regex) == Len(docs)

\* the number of documents whose vehicle type matches the regex (a substring)
RegexCount(docs, regex) ==
    Len(SelectSeq(docs, LAMBDA d : Contains(d.electric_vehicle_type, regex)))

RECURSIVE SumRange(_, _)
\* the sum $avg takes of "$electric_range" over members[k..]
SumRange(members, k) ==
    IF k > Len(members) THEN 0
    ELSE members[k].electric_range + SumRange(members, k + 1)

\* the document the $group stage of get_trends gives for one model year
TrendDoc(g) ==
    [ id |-> g.id,
      vehicle_count |-> g.count,
      range_sum |-> SumRange(g.members, 1),
      bev_count |-> RegexCount(g.members, BEV),
      phev_count |-> RegexCount(g.members, PHEV) ]

\* YearTrend(...) with percentages that are fractions of 1
YearTrend_Fraction(doc) ==
    [ model_year |-> doc.id,
      vehicle_count |-> doc.vehicle_count,
      average_electric_range |-> Average(doc.range_sum, doc.vehicle_count),
      bev_count |-> doc.bev_count,
      phev_count |-> doc.phev_count,
      bev_percentage |-> Percent_Fraction(doc.bev_count, doc.bev_count + doc.phev_count),
      phev_percentage |-> Percent_Fraction(doc.phev_count, doc.bev_count + doc.phev_count) ]

\* YearTrend(...) built from one document of the aggregation
YearTrend(doc) ==
    [ model_year |-> doc.id,
      vehicle_count |-> doc.vehicle_count,
      average_electric_range |-> Average(doc.range_sum, doc.vehicle_count),
      bev_count |-> doc.bev_count,
      phev_count |-> doc.phev_count,
      bev_percentage |-> Percent(doc.bev_count, doc.bev_count + doc.phev_count),
      phev_percentage |-> Percent(doc.phev_count, doc.bev_count + doc.phev_count) ]

\* round(rate, 2) if rate else None, rate = num / first / years_diff * 100:
\* None is the empty set; a rate of 0 is falsy
RateOrNone(num, first, years_diff) ==
    IF num = 0 THEN {} ELSE { SignedRound2(100 * num, first * years_diff) }

\* overall_growth_rate of the response
overall_growth_rate(trends) ==
    IF Len(trends) >= 2
       /\ trends[Len(trends)].model_year - trends[1].model_year > 0
       /\ trends[1].vehicle_count > 0
    THEN RateOrNone(trends[Len(trends)].vehicle_count - trends[1].vehicle_count,
                    trends[1].vehicle_count,
                    trends[Len(trends)].model_year - trends[1].model_year)
    ELSE {}

\* range_improvement_rate of the response
range_improvement_rate(trends) ==
    IF Len(trends) >= 2 /\ trends[1].average_electric_range > 0
    THEN RateOrNone(trends[Len(trends)].average_electric_range
                        - trends[1].average_electric_range,
                    trends[1].average_electric_range,
                    trends[Len(trends)].model_year - trends[1].model_year)
    ELSE {}

\* the division by years_diff in range_improvement_rate raises
\* ZeroDivisionError when the first and the last year are the same
RangeRateRaises(trends) ==
    /\ Len(trends) >= 2 /\ trends[1].average_electric_range > 0
    /\ trends[Len(trends)].model_year = trends[1].model_year

\* the response of get_trends from the trend list
TrendsOf(trends) ==
    IF RangeRateRaises(trends) THEN [kind |-> "Exception"]
    ELSE [ kind |-> "return", status |-> 200,
           trends |-> trends,
           overall_growth_rate |-> overall_growth_rate(trends),
           range_improvement_rate |-> range_improvement_rate(trends) ]

\* the response of get_trends from the groups sorted by year
TrendsResponse(results) ==
    IF results = << >> THEN NotFound
    ELSE TrendsOf([k \in 1..Len(results) |-> YearTrend(TrendDoc(results[k]))])

\* get_trends: $group by model_year, $sort by _id ascending
get_trends(coll) ==
    { TrendsResponse(results) :
      results \in Orderings(GroupBy(coll, "model_year"), LAMBDA g, h : g.id <= h.id) }

\* get_summary after the count: vehicles_by_type from its own aggregate
get_summary(coll, total_vehicles) ==
    { [ kind |-> "return", status |-> 200,
        total_vehicles |-> total_vehicles,
        vehicles_by_type |-> [k \in 1..Len(results) |->
                                 [type |-> results[k].id, count |-> results[k].count]] ] :
      results \in Orderings(GroupBy(coll, "electric_vehicle_type"), CountDesc) }

(***************************************************************************)
(* Requests.                                                               *)
(***************************************************************************)
S_king == <<"k","i","n","g">>
S_tesla == <<"t","e","s","l","a">>

\* a county request with the defaults of the handler's signature, and a
\* small page_size
DefaultCounty ==
    [ op |-> "county", county_name |-> S_king, page |-> 1, page_size |-> 2,
      model_year |-> {}, sort_by |-> "model_year", sort_order |-> "desc" ]

CountySamples(f) ==
    CASE f = "county_name" -> { S_king, S_KING, <<"K","i","n","g">>, <<"Y","A","K","I","M","A">> }
      [] f = "page" -> 1..MaxPage
      [] f = "page_size" -> 1..MaxPage
      [] f = "model_year" -> { {}, { 0 }, { 2023 }, { 2019 } }
      [] f = "sort_by" -> { "model_year", "make", "model" }
      [] f = "sort_order" -> { "asc", "desc" }

MakeRequests == [ op : { "make" }, make : { S_tesla, S_TESLA, Lower(S_CHEVROLET), <<"F","O","R","D">> } ]

FilterNames == { "makes", "model_years", "min_electric_range", "counties", "vehicle_types" }

\* AnalyzeFilters() with every filter None, grouped by make
DefaultAnalyze == [f \in FilterNames \cup { "group_by" } |-> IF f = "group_by" THEN "make" ELSE {}]

AnalyzeSamples(f) ==
    CASE f = "makes" -> { {}, { << >> }, { << S_tesla >> }, { << S_TESLA, Lower(S_CHEVROLET) >> } }
      [] f = "model_years" ->
             { {}, { {} }, { { <<"start", 2020>> } }, { { <<"end", 2022>> } },
               { { <<"start", 2019>>, <<"end", 2023>> } },
               { { <<"start", 2023>>, <<"end", 2020>> } } }
      [] f = "min_electric_range" -> { {}, { 0 }, { 259 }, { 500 } }
      [] f = "counties" -> { {}, { << >> }, { << S_king >> } }
      [] f = "vehicle_types" -> { {}, { << Lower(BATTERY_ELECTRIC_VEHICLE) >> } }
      [] f = "group_by" -> { "county", "make", "model_year", "vehicle_type" }

\* the AnalyzeRequest of the parameters p
AnalyzeRequest(p) ==
    [ op |-> "analyze", group_by |-> p["group_by"],
      filters |-> [f \in FilterNames |-> p[f]] ]

VARIABLES
    record,     \* validate_record's argument
    result,     \* what validate_record returned, or the exception that escaped
    vpc,        \* "call" before the call, then "returned" or "raised"
    row,        \* the row handed to the normaliser
    once,       \* the row normalised
    twice,      \* the normalised row normalised again
    npc,        \* "raw", "once", "twice"
    df,                     \* transform's argument
    valid_records,          \* transform's first result
    quality_report,         \* transform's second result
    self_validation_errors, \* self.validation_errors of the DataPipeline
    missing_values_summary, \* self.missing_values_summary
    tpc,                    \* "call", then "returned" or "raised"
    runs,                   \* the number of transform calls made on the pipeline
    records,    \* load's argument: the number of documents to load
    batch_size, \* load's argument
    faulty,     \* the documents the store refuses (per-document write fault)
    load_i,     \* the loop variable i of load
    store,      \* the documents of the vehicles collection
    indexes,    \* whether create_indexes has built the index set
    exc,        \* the exception load raised, "none" if none
    lpc,        \* "loop", "indexes", then "returned" or "raised"
    collection,  \* the documents of the vehicles collection the API queries
    request,     \* the request being served
    response,    \* the response sent
    total_count, \* what count_documents returned to the handler
    changed,     \* whether a load wrote to the collection during the request
    fault,       \* whether a store operation of the request raised
    qpc,         \* "ready", "called", "counted", "done"
    history,     \* the responses to the earlier requests of the session
    doc,         \* a document of an aggregation's $group stage
    shown,       \* what the handler builds from doc
    mpc,         \* "doc", then "built"
    drop_existing, \* run_pipeline's argument
    before,        \* the documents of the collection when run_pipeline is called
    connected,     \* whether db_manager holds an open connection
    rexc,          \* the exception run_pipeline raised, "none" if none
    rpc            \* run_pipeline's position

vvars == << record, result, vpc >>
nvars == << row, once, twice, npc >>
tvars == << df, valid_records, quality_report, self_validation_errors,
            missing_values_summary, tpc, runs >>
lvars == << records, batch_size, faulty, load_i, store, indexes, exc, lpc >>
qvars == << collection, request, response, total_count, changed, fault, qpc >>
hvars == << history >>
mvars == << doc, shown, mpc >>
rvars == << drop_existing, before, connected, rexc, rpc >>
vars == << vvars, nvars, tvars, lvars, qvars, hvars, mvars, rvars >>

\* the components a specification does not exercise stay idle
IdleValidate == record = NoneV /\ result = NoneV /\ vpc = "idle"
IdleNormalize == row = NoneV /\ once = NoneV /\ twice = NoneV /\ npc = "idle"
IdleTransform ==
    /\ df = << >> /\ valid_records = NoneV /\ quality_report = NoneV
    /\ self_validation_errors = << >> /\ missing_values_summary = << >>
    /\ tpc = "idle" /\ runs = 0
IdleLoad ==
    /\ records = 0 /\ batch_size = 1 /\ faulty = {} /\ load_i = 0 /\ store = {}
    /\ indexes = FALSE /\ exc = "none" /\ lpc = "idle"
IdleQuery ==
    /\ collection = << >> /\ request = NoneV /\ response = NoneV /\ total_count = 0
    /\ changed = FALSE /\ fault = FALSE /\ qpc = "idle"

IdleHistory == history = << >>
IdleNumbers == doc = NoneV /\ shown = NoneV /\ mpc = "idle"
IdleRun ==
    /\ drop_existing = FALSE /\ before = {} /\ connected = FALSE
    /\ rexc = "none" /\ rpc = "idle"
IdleNew == IdleHistory /\ IdleNumbers /\ IdleRun

(***************************************************************************)
(* SpecValidate: one call of validate_record.                              *)
(***************************************************************************)
\* BaseRecord with one or two fields replaced by a sample, or with a text
\* over TypeChars as its vehicle type
InitValidate ==
    /\ \/ \E f \in Fields, g \in Fields :
             \E v \in Samples(f), w \in Samples(g) :
                 record = [[BaseRecord EXCEPT ![f] = v] EXCEPT ![g] = w]
       \/ \E t \in Texts(MaxTypeLen) :
             record = [BaseRecord EXCEPT !["electric_vehicle_type"] = StrV(t)]
    /\ result = NoneV
    /\ vpc = "call"
    /\ IdleNormalize /\ IdleTransform /\ IdleLoad /\ IdleQuery /\ IdleNew

\* the caller receives r
Receive(r) ==
    /\ result' = r
    /\ vpc' = IF r.ret THEN "returned" ELSE "raised"

\* a call of validate_record(record)
ValidateRecordCall ==
    /\ vpc = "call"
    /\ Receive(validate_record(record))
    /\ UNCHANGED << record, nvars, tvars, lvars, qvars, hvars, mvars, rvars >>

NextValidate == ValidateRecordCall

SpecValidate == InitValidate /\ [][NextValidate]_vars

(***************************************************************************)
(* SpecNormalize: the normalisation applied to a row, and to its output.   *)
(***************************************************************************)
InitNormalize ==
    /\ \E c \in DOMAIN RawRow, d \in DOMAIN RawRow :
           \E v \in CellSamples, w \in CellSamples :
               row = [[RawRow EXCEPT ![c] = v] EXCEPT ![d] = w]
    /\ once = NoneV
    /\ twice = NoneV
    /\ npc = "raw"
    /\ IdleValidate /\ IdleTransform /\ IdleLoad /\ IdleQuery /\ IdleNew

\* the normalisation of transform applied to the raw row
Normalize ==
    /\ npc = "raw"
    /\ once' = NormalizeRow(row)
    /\ npc' = "once"
    /\ UNCHANGED << row, twice, vvars, tvars, lvars, qvars, hvars, mvars, rvars >>

\* the normalisation applied to its own output
NormalizeAgain ==
    /\ npc = "once"
    /\ twice' = NormalizeRow(once)
    /\ npc' = "twice"
    /\ UNCHANGED << row, once, vvars, tvars, lvars, qvars, hvars, mvars, rvars >>

NextNormalize == Normalize \/ NormalizeAgain

SpecNormalize == InitNormalize /\ [][NextNormalize]_vars

(***************************************************************************)
(* SpecTransform: one call of transform on a fresh DataPipeline.           *)
(***************************************************************************)
InitTransform ==
    /\ \/ df \in Frames(MaxPattern)
       \/ \E p \in LongPatterns, m \in { ErrorsKept - 1, ErrorsKept }, t \in Frames(MaxTail) :
              df = Repeat(p, m) \o t
    /\ valid_records = NoneV
    /\ quality_report = NoneV
    /\ self_validation_errors = << >>
    /\ missing_values_summary = << >>
    /\ tpc = "call"
    /\ runs = 0
    /\ IdleValidate /\ IdleNormalize /\ IdleLoad /\ IdleQuery /\ IdleNew

\* transform returns (valid_records, quality_report), or the exception that
\* escaped the loop propagates; self.validation_errors keeps what was appended
Finish(acc, missing, total) ==
    /\ self_validation_errors' = acc.self_validation_errors
    /\ missing_values_summary' = missing
    /\ IF acc.raised = NoneV
       THEN /\ valid_records' = acc.valid_records
            /\ quality_report' = DataQualityReport(total, acc, missing)
            /\ tpc' = "returned"
       ELSE /\ UNCHANGED << valid_records, quality_report >>
            /\ tpc' = "raised"

\* the body of transform on the DataFrame d
Call(d) ==
    Finish(ValidateLoop(Outcomes(ToRecords(d)), self_validation_errors),
           analyze_missing_values(Renamed(d)), Len(d))

\* a call of transform(df) on a fresh DataPipeline
Transform ==
    /\ tpc = "call"
    /\ Call(df)
    /\ runs' = 1
    /\ UNCHANGED << df, vvars, nvars, lvars, qvars, hvars, mvars, rvars >>

\* a second call of transform, on the same DataPipeline, with another DataFrame
TransformAgain ==
    /\ tpc = "returned"
    /\ runs = 1
    /\ \E d \in Frames(1) : df' = d /\ Call(d)
    /\ runs' = 2
    /\ UNCHANGED << vvars, nvars, lvars, qvars, hvars, mvars, rvars >>

NextTransform == Transform \/ TransformAgain

SpecTransform == InitTransform /\ [][NextTransform]_vars

(***************************************************************************)
(* SpecLoad: one call of load(records, batch_size).                        *)
(***************************************************************************)
InitLoad ==
    /\ records \in 0..MaxRecords
    /\ batch_size \in 1..MaxBatch
    /\ faulty \in SUBSET (1..records)
    /\ store \in { {}, { OldDocument } }
    /\ load_i = 0
    /\ indexes = FALSE
    /\ exc = "none"
    /\ lpc = "loop"
    /\ IdleValidate /\ IdleNormalize /\ IdleTransform /\ IdleQuery /\ IdleNew

\* collection.insert_many(batch, ordered=False): every document of the batch
\* is attempted; BulkWriteError is raised afterwards when one was refused,
\* and load re-raises it
InsertBatch ==
    /\ lpc = "loop"
    /\ load_i < records
    /\ store' = store \cup (Batch(load_i, batch_size, records) \ faulty)
    /\ IF Batch(load_i, batch_size, records) \cap faulty = {}
       THEN /\ load_i' = load_i + batch_size
            /\ UNCHANGED << exc, lpc >>
       ELSE /\ exc' = "BulkWriteError"
            /\ lpc' = "raised"
            /\ UNCHANGED load_i
    /\ UNCHANGED << records, batch_size, faulty, indexes, vvars, nvars, tvars, qvars, hvars, mvars, rvars >>

\* the connection fails during insert_many: an unknown part of the batch was
\* changed, and load re-raises the failure
InsertBatchConnectionFailure ==
    /\ lpc = "loop"
    /\ load_i < records
    /\ \E written \in SUBSET (Batch(load_i, batch_size, records) \ faulty) :
           store' = store \cup written
    /\ exc' = "ConnectionFailure"
    /\ lpc' = "raised"
    /\ UNCHANGED << records, batch_size, faulty, load_i, indexes, vvars, nvars, tvars, qvars, hvars, mvars, rvars >>

\* create_indexes called whether or not the loop is over
CreateIndexes_Early ==
    /\ lpc = "loop"
    /\ indexes' = TRUE
    /\ lpc' = "returned"
    /\ UNCHANGED << records, batch_size, faulty, load_i, store, exc, vvars, nvars, tvars, qvars, hvars, mvars, rvars >>

\* the loop is over: db_manager.create_indexes(), then load returns
CreateIndexes ==
    /\ lpc = "loop"
    /\ load_i >= records
    /\ indexes' = TRUE
    /\ lpc' = "returned"
    /\ UNCHANGED << records, batch_size, faulty, load_i, store, exc, vvars, nvars, tvars, qvars, hvars, mvars, rvars >>

\* create_indexes raises OperationFailure, which load re-raises
CreateIndexesFails ==
    /\ lpc = "loop"
    /\ load_i >= records
    /\ exc' = "OperationFailure"
    /\ lpc' = "raised"
    /\ UNCHANGED << records, batch_size, faulty, load_i, store, indexes, vvars, nvars, tvars, qvars, hvars, mvars, rvars >>

NextLoad ==
    \/ InsertBatch
    \/ InsertBatchConnectionFailure
    \/ CreateIndexes
    \/ CreateIndexesFails

SpecLoad == InitLoad /\ [][NextLoad]_vars

(***************************************************************************)
(* SpecQuery: one request served by the API, while a load may append       *)
(* documents to the collection between two store operations of a handler.  *)
(***************************************************************************)
InitQuery ==
    /\ collection \in Collections(MaxDocs)
    /\ request = NoneV
    /\ response = NoneV
    /\ total_count = 0
    /\ changed = FALSE
    /\ fault = FALSE
    /\ qpc = "ready"
    /\ IdleValidate /\ IdleNormalize /\ IdleTransform /\ IdleLoad /\ IdleNew

\* the router hands request r to its handler
Receive_Request(r) ==
    /\ qpc = "ready"
    /\ request' = r
    /\ qpc' = "called"
    /\ UNCHANGED << collection, response, total_count, changed, fault,
                    vvars, nvars, tvars, lvars, hvars, mvars, rvars >>

\* the response out is sent
Send(out) ==
    /\ response' = Handle(out)
    /\ qpc' = "done"

CallSummary == Receive_Request([op |-> "summary"])

CallTrends == Receive_Request([op |-> "trends"])

CallCounty ==
    \E f \in DOMAIN DefaultCounty \ { "op" }, g \in DOMAIN DefaultCounty \ { "op" } :
        \E v \in CountySamples(f), w \in CountySamples(g) :
            Receive_Request([[DefaultCounty EXCEPT ![f] = v] EXCEPT ![g] = w])

CallMake == \E r \in MakeRequests : Receive_Request(r)

CallAnalyze ==
    \E f \in DOMAIN DefaultAnalyze, g \in DOMAIN DefaultAnalyze :
        \E v \in AnalyzeSamples(f), w \in AnalyzeSamples(g) :
            Receive_Request(AnalyzeRequest([[DefaultAnalyze EXCEPT ![f] = v] EXCEPT ![g] = w]))

\* get_summary: total_vehicles = collection.count_documents({})
SummaryCount ==
    /\ qpc = "called" /\ request.op = "summary"
    /\ total_count' = count_documents(collection, << >>)
    /\ qpc' = "counted"
    /\ UNCHANGED << collection, request, response, changed, fault,
                    vvars, nvars, tvars, lvars, hvars, mvars, rvars >>

\* get_summary: the aggregates, and the return
SummaryAggregate ==
    /\ qpc = "counted" /\ request.op = "summary"
    /\ \E out \in get_summary(collection, total_count) : Send(out)
    /\ UNCHANGED << collection, request, total_count, changed, fault,
                    vvars, nvars, tvars, lvars, hvars, mvars, rvars >>

\* get_vehicles_by_county: the query, the count, and the 404 when it is 0
CountyCount ==
    /\ qpc = "called" /\ request.op = "county"
    /\ total_count' = count_documents(collection, CountyQuery(request))
    /\ IF total_count' = 0
       THEN Send(NotFound)
       ELSE qpc' = "counted" /\ UNCHANGED response
    /\ UNCHANGED << collection, request, changed, fault, vvars, nvars, tvars, lvars, hvars, mvars, rvars >>

\* get_vehicles_by_county: the find, and the return
CountyFetch ==
    /\ qpc = "counted" /\ request.op = "county"
    /\ \E out \in CountyFind(collection, request, total_count) : Send(out)
    /\ UNCHANGED << collection, request, total_count, changed, fault,
                    vvars, nvars, tvars, lvars, hvars, mvars, rvars >>

\* get_models_by_make
ModelsByMake ==
    /\ qpc = "called" /\ request.op = "make"
    /\ \E out \in get_models_by_make(collection, request) : Send(out)
    /\ UNCHANGED << collection, request, total_count, changed, fault,
                    vvars, nvars, tvars, lvars, hvars, mvars, rvars >>

\* analyze_vehicles
Analyze ==
    /\ qpc = "called" /\ request.op = "analyze"
    /\ \E out \in analyze_vehicles(collection, request) : Send(out)
    /\ UNCHANGED << collection, request, total_count, changed, fault,
                    vvars, nvars, tvars, lvars, hvars, mvars, rvars >>

\* get_trends
Trends ==
    /\ qpc = "called" /\ request.op = "trends"
    /\ \E out \in get_trends(collection) : Send(out)
    /\ UNCHANGED << collection, request, total_count, changed, fault,
                    vvars, nvars, tvars, lvars, hvars, mvars, rvars >>

\* a store operation of the handler raises (the connection is lost)
StoreFails ==
    /\ qpc \in { "called", "counted" }
    /\ fault' = TRUE
    /\ Send(StoreFault)
    /\ UNCHANGED << collection, request, total_count, changed,
                    vvars, nvars, tvars, lvars, hvars, mvars, rvars >>

\* a load running beside the API inserts a document between the handler's
\* count and its next store operation
ConcurrentInsert ==
    /\ qpc = "counted"
    /\ Len(collection) < MaxDocs
    /\ \E d \in DocSamples : collection' = Append(collection, d)
    /\ changed' = TRUE
    /\ UNCHANGED << request, response, total_count, fault, qpc,
                    vvars, nvars, tvars, lvars, hvars, mvars, rvars >>

NextQuery ==
    \/ CallSummary \/ CallTrends \/ CallCounty \/ CallMake \/ CallAnalyze
    \/ SummaryCount \/ SummaryAggregate
    \/ CountyCount \/ CountyFetch
    \/ ModelsByMake \/ Analyze \/ Trends
    \/ StoreFails
    \/ ConcurrentInsert

SpecQuery == InitQuery /\ [][NextQuery]_vars

(***************************************************************************)
(* SpecAnalyze: the same analyze request served twice on the same stored   *)
(* documents.  The sequence `collection` is the order in which the store   *)
(* hands the documents to the pipeline, which it may change between two    *)
(* executions.                                                             *)
(***************************************************************************)
MaxMembers == 4

S_A_B == <<"A"," ","B">>
S_B_C == <<"B"," ","C">>

\* stored vehicles of one county and year whose makes and models hold blanks
PairSamples ==
    { Doc(S_KING, S_A_B, <<"C">>, 2023, BATTERY_ELECTRIC_VEHICLE, 100),
      Doc(S_KING, <<"A">>, S_B_C, 2023, BATTERY_ELECTRIC_VEHICLE, 100),
      Doc(S_KING, <<"Z">>, <<"W">>, 2023, BATTERY_ELECTRIC_VEHICLE, 100) }

RECURSIVE PairCollections(_)
\* the collections of at most k such documents
PairCollections(k) ==
    IF k = 0 THEN { << >> }
    ELSE PairCollections(k - 1) \cup
         { Append(c, d) : c \in { x \in PairCollections(k - 1) : Len(x) = k - 1 },
                          d \in PairSamples }

\* the orders in which the documents of coll may be handed out
Rearranged(coll) ==
    { [k \in 1..Len(coll) |-> coll[q[k]]] :
      q \in Orderings(1..Len(coll), LAMBDA i, j : TRUE) }

InitAnalyze ==
    /\ collection \in PairCollections(MaxMembers)
    /\ \E g \in { "county", "make" } :
           request = AnalyzeRequest([DefaultAnalyze EXCEPT !["group_by"] = g])
    /\ response = NoneV
    /\ total_count = 0
    /\ changed = FALSE
    /\ fault = FALSE
    /\ qpc = "called"
    /\ history = << >>
    /\ IdleValidate /\ IdleNormalize /\ IdleTransform /\ IdleLoad
    /\ IdleNumbers /\ IdleRun

\* the same request is sent again; the store holds the same documents
AnalyzeAgain ==
    /\ qpc = "done"
    /\ history = << >>
    /\ history' = << response >>
    /\ collection' \in Rearranged(collection)
    /\ response' = NoneV
    /\ qpc' = "called"
    /\ UNCHANGED << request, total_count, changed, fault,
                    vvars, nvars, tvars, lvars, mvars, rvars >>

NextAnalyze == Analyze \/ AnalyzeAgain

SpecAnalyze == InitAnalyze /\ [][NextAnalyze]_vars

(***************************************************************************)
(* SpecRun: one call of run_pipeline(drop_existing): connect, drop,        *)
(* extract, transform, load, and the disconnect of its finally block.      *)
(* load is called with its default batch_size, modelled by a small one.    *)
(***************************************************************************)
MaxRunRows == 2

InitRun ==
    /\ drop_existing \in BOOLEAN
    /\ store \in { {}, { OldDocument } }
    /\ before = store
    /\ connected = FALSE
    /\ rexc = "none"
    /\ rpc = "connect"
    /\ records = 0
    /\ batch_size \in 1..MaxBatch
    /\ faulty = {}
    /\ load_i = 0
    /\ indexes = FALSE
    /\ exc = "none"
    /\ lpc = "idle"
    /\ IdleValidate /\ IdleNormalize /\ IdleTransform /\ IdleQuery
    /\ IdleHistory /\ IdleNumbers

\* run_pipeline raises e; its finally block disconnects
Raise(e) ==
    /\ rexc' = e
    /\ rpc' = "raised"
    /\ connected' = FALSE

\* db_manager.connect()
Connect ==
    /\ rpc = "connect"
    /\ connected' = TRUE
    /\ rpc' = "drop"
    /\ UNCHANGED << drop_existing, before, rexc, vvars, nvars, tvars, lvars, qvars, hvars, mvars >>

\* db_manager.connect() raises ConnectionFailure
ConnectFails ==
    /\ rpc = "connect"
    /\ Raise("ConnectionFailure")
    /\ UNCHANGED << drop_existing, before, vvars, nvars, tvars, lvars, qvars, hvars, mvars >>

\* if drop_existing: db_manager.drop_collection("vehicles")
DropCollection ==
    /\ rpc = "drop"
    /\ store' = IF drop_existing THEN {} ELSE store
    /\ rpc' = "extract"
    /\ UNCHANGED << drop_existing, before, connected, rexc,
                    records, batch_size, faulty, load_i, indexes, exc, lpc,
                    vvars, nvars, tvars, qvars, hvars, mvars >>

\* df = self.extract()
Extract ==
    /\ rpc = "extract"
    /\ df' \in Frames(MaxRunRows)
    /\ tpc' = "call"
    /\ rpc' = "transform"
    /\ UNCHANGED << valid_records, quality_report, self_validation_errors,
                    missing_values_summary, runs,
                    drop_existing, before, connected, rexc,
                    vvars, nvars, lvars, qvars, hvars, mvars >>

\* self.extract() raises: the file or the S3 object cannot be read
ExtractFails ==
    /\ rpc = "extract"
    /\ Raise("FileNotFoundError")
    /\ UNCHANGED << drop_existing, before, vvars, nvars, tvars, lvars, qvars, hvars, mvars >>

\* an exception escaped transform
TransformRaises ==
    /\ rpc = "transform"
    /\ tpc = "raised"
    /\ Raise("OverflowError")
    /\ UNCHANGED << drop_existing, before, vvars, nvars, tvars, lvars, qvars, hvars, mvars >>

\* self.load(valid_records): the call
StartLoad ==
    /\ rpc = "transform"
    /\ tpc = "returned"
    /\ records' = Len(valid_records)
    /\ faulty' \in SUBSET (1..Len(valid_records))
    /\ lpc' = "loop"
    /\ rpc' = "load"
    /\ UNCHANGED << batch_size, load_i, store, indexes, exc,
                    drop_existing, before, connected, rexc,
                    vvars, nvars, tvars, qvars, hvars, mvars >>

\* load returned: return quality_report, after the disconnect
LoadReturns ==
    /\ rpc = "load"
    /\ lpc = "returned"
    /\ rpc' = "returned"
    /\ connected' = FALSE
    /\ UNCHANGED << drop_existing, before, rexc, vvars, nvars, tvars, lvars, qvars, hvars, mvars >>

\* load raised: except Exception: raise
LoadRaises ==
    /\ rpc = "load"
    /\ lpc = "raised"
    /\ Raise(exc)
    /\ UNCHANGED << drop_existing, before, vvars, nvars, tvars, lvars, qvars, hvars, mvars >>

NextRun ==
    \/ Connect \/ ConnectFails
    \/ DropCollection
    \/ Extract \/ ExtractFails
    \/ Transform \/ TransformRaises
    \/ StartLoad
    \/ InsertBatch \/ InsertBatchConnectionFailure
    \/ CreateIndexes \/ CreateIndexesFails
    \/ LoadReturns \/ LoadRaises

SpecRun == InitRun /\ [][NextRun]_vars

(***************************************************************************)
(* SpecPaging: the pages 1, 2, ... of one county listing requested in      *)
(* turn on a collection that does not change.                              *)
(***************************************************************************)
InitPaging ==
    /\ collection \in Collections(MaxDocs)
    /\ \E size \in CountySamples("page_size"), y \in { {}, { 2023 } },
          by \in CountySamples("sort_by"), order \in CountySamples("sort_order") :
           request = [DefaultCounty EXCEPT !.page_size = size, !.model_year = y,
                                           !.sort_by = by, !.sort_order = order]
    /\ response = NoneV
    /\ total_count = 0
    /\ changed = FALSE
    /\ fault = FALSE
    /\ qpc = "called"
    /\ history = << >>
    /\ IdleValidate /\ IdleNormalize /\ IdleTransform /\ IdleLoad
    /\ IdleNumbers /\ IdleRun

\* the client asks for the page after the one it got, up to the page after
\* the last
NextPage ==
    /\ qpc = "done"
    /\ response.status = 200
    /\ request.page <= response.total_pages
    /\ history' = Append(history, response)
    /\ request' = [request EXCEPT !.page = @ + 1]
    /\ response' = NoneV
    /\ qpc' = "called"
    /\ UNCHANGED << collection, total_count, changed, fault,
                    vvars, nvars, tvars, lvars, mvars, rvars >>

NextPaging == CountyCount \/ CountyFetch \/ NextPage

SpecPaging == InitPaging /\ [][NextPaging]_vars

(***************************************************************************)
(* SpecNumbers: the YearTrend get_trends builds from one document of its   *)
(* aggregation, as a function of the document.                             *)
(***************************************************************************)
MaxVehicles == 32
MaxCount == 40
MaxSum == 107

\* documents of the $group stage: the type counts of a year, or the sum and
\* the number of the ranges its average is taken of
GroupDocs ==
    { [ id |-> 2023, vehicle_count |-> b + p + o, range_sum |-> 0,
        bev_count |-> b, phev_count |-> p ] :
      b \in 0..MaxVehicles, p \in 0..MaxVehicles, o \in 0..1 }
    \cup
    { [ id |-> 2023, vehicle_count |-> n, range_sum |-> sum,
        bev_count |-> n, phev_count |-> 0 ] :
      n \in 1..MaxCount, sum \in 0..MaxSum }

InitNumbers ==
    /\ doc \in { g \in GroupDocs : g.vehicle_count > 0 }
    /\ shown = NoneV
    /\ mpc = "doc"
    /\ IdleValidate /\ IdleNormalize /\ IdleTransform /\ IdleLoad /\ IdleQuery
    /\ IdleHistory /\ IdleRun

\* trends.append(YearTrend(...)) for doc
BuildYearTrend ==
    /\ mpc = "doc"
    /\ shown' = YearTrend(doc)
    /\ mpc' = "built"
    /\ UNCHANGED << doc, vvars, nvars, tvars, lvars, qvars, hvars, rvars >>

NextNumbers == BuildYearTrend

SpecNumbers == InitNumbers /\ [][NextNumbers]_vars

(***************************************************************************)
(* Properties of the validator (SpecValidate).                             *)
(***************************************************************************)
Returned == vpc = "returned"

\* the failure message has a line naming field f
ErrorNames(f) == \E i \in 1..Len(result.error_msg) : result.error_msg[i].loc = f

\* C1: validate_record is total: every call returns (True, record, "") or
\* (False, None, non-empty message); no exception escapes to the caller.
C1_ValidatorTotal ==
    vpc # "call" =>
        /\ Returned
        /\ \/ result.is_valid /\ result.validated # NoneV /\ result.error_msg = << >>
           \/ ~result.is_valid /\ result.validated = NoneV /\ result.error_msg # << >>

\* a required text field that is absent, null, or empty after trimming
MissingOrEmpty(v) == v \in { Absent, NoneV } \/ (v.t = "str" /\ Strip(v.s) = << >>)

\* C3: a record in which a required text field is absent, null, or empty
\* after trimming is rejected with a message that names the field.
C3_RequiredTextRejected ==
    Returned =>
        \A f \in RequiredStrFields :
            MissingOrEmpty(record[f]) => ~result.is_valid /\ ErrorNames(f)

\* the value is a number, or a text float() parses as one, that int()
\* truncates to -1 or less
NegativeNumber(v) ==
    \/ v.t = "int" /\ v.n <= -1
    \/ v.t = "float" /\ v.neg /\ v.ip >= 1
    \/ v.t = "str" /\ PyFloat(v).t = "float" /\ PyFloat(v).neg /\ PyFloat(v).ip >= 1

\* C4 as stated: no value supplied for electric_range or base_msrp ever
\* causes the record to fail validation.
C4_NumericNeverFails ==
    Returned => \A f \in NumericFields : ~ErrorNames(f)

\* C4 as amended: the record fails validation on electric_range / base_msrp
\* exactly when the supplied value is a finite number (or a text parsing as
\* one) whose truncation toward zero is negative; the failure is the ge=0
\* bound's.
C4_NegativeRejected ==
    Returned =>
        \A f \in NumericFields :
            /\ ErrorNames(f) <=> (record[f] # Absent /\ NegativeNumber(record[f]))
            /\ \A i \in 1..Len(result.error_msg) :
                   result.error_msg[i].loc = f =>
                       result.error_msg[i].type = "greater_than_equal"

C4_Witness ==
    /\ Returned
    /\ record["electric_range"] = StrV(<<"-","5">>)
    /\ ~result.is_valid
    /\ ErrorNames("electric_range")

\* "", "NA", "N/A", None, and every text float() cannot parse
CoercesToZero(v) ==
    \/ v \in { StrV(<< >>), StrV(<<"N","A">>), StrV(<<"N","/","A">>), NoneV }
    \/ v.t = "str" /\ PyFloat(v).t = "ValueError"

\* C5: a record that passes validation has electric_range >= 0 and
\* base_msrp >= 0; "", "NA", "N/A", None and any non-numeric text in either
\* field are coerced to 0, not rejected (and do not make the call raise).
C5_NumericNonNegative ==
    vpc # "call" =>
        /\ Returned /\ result.is_valid =>
               \A f \in NumericFields :
                   result.validated[f].t = "int" /\ result.validated[f].n >= 0
        /\ \A f \in NumericFields :
               CoercesToZero(record[f]) =>
                   /\ Returned => ~ErrorNames(f)
                   /\ Returned /\ result.is_valid => result.validated[f] = IntV(0)
                   /\ ~Returned =>
                          \E g \in NumericFields \ { f } : ~CoercesToZero(record[g])

C5_Witness ==
    /\ Returned
    /\ result.is_valid
    /\ record["electric_range"] = StrV(<<"N","A">>)
    /\ record["base_msrp"] = StrV(<<"a","b","c">>)
    /\ result.validated["electric_range"] = IntV(0)
    /\ result.validated["base_msrp"] = IntV(0)

\* the integer a model_year value denotes lies in [1997, 2026]
YearInRange(v) == v.t = "int" /\ v.n >= 1997 /\ v.n <= 2026

\* model_year is missing, does not parse as an integer, or lies outside
\* [1997, 2026]
YearBad(v) ==
    \/ v \in { Absent, NoneV, NaNV, InfV(FALSE), InfV(TRUE) }
    \/ v.t = "int" /\ (v.n < 1997 \/ v.n > 2026)
    \/ v.t = "float" /\ (v.fd # << >> \/ v.neg \/ v.ip < 1997 \/ v.ip > 2026)
    \/ v.t = "str" /\ ~StrAsInt("model_year", v.s).ok
    \/ v.t = "str" /\ StrAsInt("model_year", v.s).ok
                   /\ ~YearInRange(StrAsInt("model_year", v.s).v)

\* C6: a record whose model_year is missing, unparsable or outside
\* [1997, 2026] is never accepted, and the failure names model_year; an
\* integer model_year inside the range is never the reason of a failure.
C6_ModelYearRange ==
    vpc # "call" =>
        /\ YearBad(record["model_year"]) =>
               /\ ~(Returned /\ result.is_valid)
               /\ Returned => ErrorNames("model_year")
        /\ YearInRange(record["model_year"]) =>
               (Returned => ~ErrorNames("model_year"))

C6_Witness ==
    /\ Returned
    /\ record["model_year"] = IntV(2027)
    /\ ~result.is_valid
    /\ ErrorNames("model_year")

\* the canonical form the claim gives for a trimmed, uppercased label u
CanonicalType(u) ==
    IF u \in { <<"B","E","V">>, <<"P","H","E","V">>,
               BATTERY_ELECTRIC_VEHICLE, PLUG_IN_HYBRID_ELECTRIC_VEHICLE }
    THEN u
    ELSE IF Contains(u, <<"B","E","V">>) THEN BATTERY_ELECTRIC_VEHICLE
    ELSE IF Contains(u, <<"P","H","E","V">>) THEN PLUG_IN_HYBRID_ELECTRIC_VEHICLE
    ELSE u

C9_NormalizeIdempotent == npc = "twice" => twice = once

(***************************************************************************)
(* Properties of load (SpecLoad).                                          *)
(***************************************************************************)
\* C2: a per-document write failure does not keep the other documents of its
\* batch, nor any later batch, from being inserted, and does not make load
\* fail: a load that met no connection-level or index failure returns, and
\* every document without a per-document fault is then stored.
C2_FaultTolerantLoad ==
    lpc \in { "returned", "raised" } /\ exc \notin { "ConnectionFailure", "OperationFailure" } =>
        /\ lpc = "returned"
        /\ \A d \in 1..records : d \notin faulty => d \in store

(***************************************************************************)
(* Properties of transform (SpecTransform).                                *)
(***************************************************************************)
\* what the validator makes of row j of the DataFrame
RowOutcome(j) == validate_record(ToRecord(NormalizeRow(df[j])))

\* the rows that validate, and those that fail validation
ValidRows == { j \in 1..Len(df) : RowOutcome(j).ret /\ RowOutcome(j).is_valid }
InvalidRows == { j \in 1..Len(df) : RowOutcome(j).ret /\ ~RowOutcome(j).is_valid }

\* the k-th smallest member of a set of row numbers
Kth(S, k) == CHOOSE j \in S : Cardinality({ x \in S : x <= j }) = k

\* C7: every transform run over n rows returns a report with total_records = n
\* and valid_records + invalid_records = total_records; each row is either in
\* the valid output (in input order) or counted as invalid, and a failing row
\* does not stop the rows after it from being processed.
C7_EveryRowCounted ==
    tpc # "call" =>
        /\ tpc = "returned"
        /\ quality_report.total_records = Len(df)
        /\ quality_report.valid_records + quality_report.invalid_records
               = quality_report.total_records
        /\ quality_report.valid_records = Cardinality(ValidRows)
        /\ quality_report.invalid_records = Cardinality(InvalidRows)
        /\ Len(valid_records) = Cardinality(ValidRows)
        /\ \A k \in 1..Len(valid_records) :
               valid_records[k] = RowOutcome(Kth(ValidRows, k)).validated

\* C8: the report's validation_errors are the first min(100, invalid_records)
\* validation failures in input-row order, each with the failing row's index,
\* its VIN and the message; later failures are only counted.
C8_FirstHundredErrors ==
    tpc = "returned" =>
        LET out    == SubSeq([j \in 1..Len(df) |-> RowOutcome(j)], 1, Len(df))
            failed == { j \in 1..Len(df) : ~out[j].is_valid }
            errs   == quality_report.validation_errors
            listed == { errs[k].record_index + 1 : k \in 1..Len(errs) }
        IN  /\ quality_report.invalid_records = Cardinality(failed)
            /\ Len(errs) = (IF Cardinality(failed) < 100 THEN Cardinality(failed) ELSE 100)
            /\ \A k \in 1..(Len(errs) - 1) :
                   errs[k].record_index < errs[k + 1].record_index
            /\ listed \subseteq failed
            /\ \A j \in failed : \A l \in listed : j < l => j \in listed
            /\ \A k \in 1..Len(errs) :
                   /\ errs[k].vin = ToRecord(NormalizeRow(df[errs[k].record_index + 1]))["vin_1_10"]
                   /\ errs[k].error = out[errs[k].record_index + 1].error_msg

C8_Witness ==
    /\ tpc = "returned"
    /\ quality_report.invalid_records = 101
    /\ Len(quality_report.validation_errors) = 100
    /\ quality_report.valid_records > 0

\* the messages of the rows of df that fail validation, in input order
FailureMessages ==
    LET out == SubSeq([j \in 1..Len(df) |-> RowOutcome(j)], 1, Len(df))
    IN  AppendedMessages(SelectSeq([j \in 1..Len(df) |-> [r |-> out[j]]], IsInvalid))

\* C11: after a second transform call on the same pipeline, the returned
\* report and the pipeline's accumulated validation_errors reflect only the
\* rows of the second call.
C11_NoLeakBetweenRuns ==
    runs = 2 /\ tpc = "returned" =>
        /\ quality_report.total_records = Len(df)
        /\ quality_report.invalid_records = Len(FailureMessages)
        /\ self_validation_errors = FailureMessages

(***************************************************************************)
(* Properties of the query API (SpecQuery).                                *)
(***************************************************************************)
\* the request of operation op has been answered
Answered(op) == qpc = "done" /\ request.op = op

C13_TotalPagesIsCeiling ==
    Answered("county") /\ response.status = 200 =>
        /\ response.total_pages * request.page_size >= response.total_count
        /\ (response.total_pages - 1) * request.page_size < response.total_count
        /\ Len(response.vehicles) <= request.page_size

C13_Witness ==
    /\ Answered("county") /\ response.status = 200
    /\ response.total_count = 3 /\ request.page_size = 2
    /\ response.total_pages = 2 /\ Len(response.vehicles) = 2

\* the responses get_vehicles_by_county can give to req on the collection coll
\* when the collection does not change and the store does not fail
CountyOutcomes(coll, req) ==
    IF count_documents(coll, CountyQuery(req)) = 0
    THEN { Handle(NotFound) }
    ELSE { Handle(out) :
           out \in CountyFind(coll, req, count_documents(coll, CountyQuery(req))) }

Listed(l) == \E x \in l : x # << >>

\* the document satisfies every supplied filter of an analyze request
Satisfies(d, filters) ==
    /\ Listed(filters.makes) =>
           \E l \in filters.makes : \E k \in 1..Len(l) : d.make = Upper(l[k])
    /\ \A dict \in filters.model_years : \A it \in dict :
           /\ it[1] = "start" => d.model_year >= it[2]
           /\ it[1] = "end" => d.model_year <= it[2]
    /\ \A r \in filters.min_electric_range : d.electric_range >= r
    /\ Listed(filters.counties) =>
           \E l \in filters.counties : \E k \in 1..Len(l) : d.county = Upper(l[k])
    /\ Listed(filters.vehicle_types) =>
           \E l \in filters.vehicle_types :
               \E k \in 1..Len(l) : d.electric_vehicle_type = Upper(l[k])

\* the positions of the stored documents that match the filter of the request,
\* as the claims state the filters
Matching ==
    { i \in 1..Len(collection) :
        CASE request.op = "county" ->
               /\ collection[i].county = Upper(request.county_name)
               /\ \A y \in request.model_year : collection[i].model_year = y
          [] request.op = "make" -> collection[i].make = Upper(request.make)
          [] request.op = "analyze" -> Satisfies(collection[i], request.filters)
          [] OTHER -> TRUE }

\* C15: county listing, make->models, analyze and trends fail with NotFound
\* exactly when no stored document matches their filter, and return a result
\* otherwise.
C15_NotFoundIffEmpty ==
    qpc = "done" /\ request.op # "summary" /\ ~changed /\ ~fault =>
        /\ response.status = 404 <=> Matching = {}
        /\ response.status = 200 <=> Matching # {}

\* C16: an empty match and a store fault are reported as different outcomes:
\* a request whose store operations all succeed is answered 200 or 404, never
\* 500, and 404 only when nothing matched; a request with a failed store
\* operation is answered 500, never 404 and never a result.
C16_NotFoundDistinctFromFault ==
    qpc = "done" =>
        /\ fault => response.status = 500
        /\ ~fault => response.status \in { 200, 404 }
        /\ response.status = 404 =>
               /\ request.op \in { "county", "make", "analyze", "trends" }
               /\ request.op = "county" => total_count = 0
               /\ request.op = "make" =>
                      \A i \in 1..Len(collection) :
                          collection[i].make # Upper(request.make)
               /\ request.op = "analyze" =>
                      find(collection, MatchStage(request.filters)) = << >>
               /\ request.op = "trends" => collection = << >>

C16_Witness ==
    /\ qpc = "done" /\ fault
    /\ request.op = "county"
    /\ total_count > 0
    /\ response.status = 500

\* C17: every vehicle of a county listing has the canonicalised county and,
\* when a model_year is supplied, that model_year; the page is ordered by
\* sort_by in the requested direction.
C17_CountyPageFilteredAndSorted ==
    Answered("county") /\ response.status = 200 =>
        /\ \A k \in 1..Len(response.vehicles) :
               /\ response.vehicles[k].county = Upper(request.county_name)
               /\ \A y \in request.model_year : response.vehicles[k].model_year = y
        /\ \A k \in 1..(Len(response.vehicles) - 1) :
               KeyLe(response.vehicles[k], response.vehicles[k + 1], request.sort_by,
                     IF request.sort_order = "desc" THEN -1 ELSE 1)

\* the number of stored documents of the requested make with model m
ModelCount(m) ==
    Cardinality({ i \in 1..Len(collection) :
                    collection[i].make = Upper(request.make) /\ collection[i].model = m })

\* C18: make->models returns one group per distinct model of the make, each
\* with the number of stored documents of that make and model, ordered by
\* non-increasing count; most_popular_* are those of the first group, whose
\* count is the maximum.
C18_ModelsGrouped ==
    Answered("make") /\ response.status = 200 =>
        /\ { response.models[k].model : k \in 1..Len(response.models) } =
               { collection[i].model : i \in Matching }
        /\ Len(response.models) = Cardinality({ collection[i].model : i \in Matching })
        /\ response.total_models = Len(response.models)
        /\ \A k \in 1..Len(response.models) :
               response.models[k].count = ModelCount(response.models[k].model)
        /\ \A k \in 1..(Len(response.models) - 1) :
               response.models[k].count >= response.models[k + 1].count
        /\ response.most_popular_model = response.models[1].model
        /\ response.most_popular_count = response.models[1].count
        /\ \A k \in 1..Len(response.models) :
               response.most_popular_count >= response.models[k].count

C18_Witness ==
    /\ Answered("make") /\ response.status = 200
    /\ request.make = Lower(S_CHEVROLET)
    /\ response.total_models = 2
    /\ response.most_popular_model = <<"V","O","L","T">>
    /\ response.most_popular_count = 2
    /\ response.models[2].count = 1

\* the text of the stored attribute a group_by value names
Attribute(d, group_by) ==
    CASE group_by = "county" -> d.county
      [] group_by = "make" -> d.make
      [] group_by = "model_year" -> IntToStr(d.model_year)
      [] group_by = "vehicle_type" -> d.electric_vehicle_type

\* C19: analyze has one group per distinct value of the attribute group_by
\* names among the matching documents, group_value being that value; with
\* group_by = vehicle_type, one group per vehicle-type label.
C19_GroupsPartitionByAttribute ==
    Answered("analyze") /\ response.status = 200 =>
        /\ { response.groups[k].group_value : k \in 1..Len(response.groups) } =
               { Attribute(collection[i], request.group_by) : i \in Matching }
        /\ Len(response.groups) =
               Cardinality({ Attribute(collection[i], request.group_by) : i \in Matching })

C24_GrowthRatesReported ==
    Answered("trends") /\ response.status = 200 /\ Len(response.trends) >= 2 =>
        LET first == response.trends[1]
            last == response.trends[Len(response.trends)]
            yearSpan == last.model_year - first.model_year
            num == 10000 * (last.vehicle_count - first.vehicle_count)
            den == first.vehicle_count * yearSpan
        IN  /\ \A k \in 1..(Len(response.trends) - 1) :
                   response.trends[k].model_year < response.trends[k + 1].model_year
            /\ response.overall_growth_rate = {} <=>
                   (yearSpan <= 0 \/ first.vehicle_count = 0)
            /\ \A r \in response.overall_growth_rate :
                   /\ 2 * (r * den - num) <= den
                   /\ 2 * (num - r * den) <= den
            /\ last.vehicle_count = first.vehicle_count =>
                   response.overall_growth_rate = { 0 }
            /\ response.range_improvement_rate = {} <=>
                   first.average_electric_range <= 0

\* the stored documents of model year y
OfYear(y) == SelectSeq(collection, LAMBDA d : d.model_year = y)

\* the label contains "BEV" or "PHEV"
Labelled(d) ==
    Contains(d.electric_vehicle_type, BEV) \/ Contains(d.electric_vehicle_type, PHEV)

HalfUp(n, d) == (200 * n + d) \div (2 * d)

\* C25: every average and percentage of a result is the exact value rounded
\* to 2 decimals with ties rounded up: 0.125 is reported as 0.13, 2.675 as
\* 2.68.
C25_RoundedHalfUp ==
    mpc = "built" =>
        /\ shown.average_electric_range = HalfUp(doc.range_sum, doc.vehicle_count)
        /\ doc.bev_count + doc.phev_count > 0 =>
               /\ shown.bev_percentage =
                      HalfUp(100 * doc.bev_count, doc.bev_count + doc.phev_count)
               /\ shown.phev_percentage =
                      HalfUp(100 * doc.phev_count, doc.bev_count + doc.phev_count)

(***************************************************************************)
(* Properties of analyze's most common vehicle (SpecAnalyze).              *)
(***************************************************************************)
\* the stored documents of the group with value gv
GroupMembers(gv) ==
    SelectSeq(collection, LAMBDA d : Attribute(d, request.group_by) = gv)

\* the number of members with the make and model of v
PairCount(members, v) ==
    Cardinality({ i \in 1..Len(members) :
                    members[i].make = v.make /\ members[i].model = v.model })

\* C21: in each analyze group most_common_vehicle names a (make, model) pair
\* of the group that no other pair of the group occurs more often than,
\* pairs being distinct when their make or their model differs.
C21_MostCommonIsMaximal ==
    Answered("analyze") /\ response.status = 200 =>
        \A k \in 1..Len(response.groups) :
            LET members == GroupMembers(response.groups[k].group_value)
            IN  \E i \in 1..Len(members) :
                    /\ Key(members[i]) = response.groups[k].most_common_vehicle
                    /\ \A j \in 1..Len(members) :
                           PairCount(members, members[j]) <= PairCount(members, members[i])

\* C22: for fixed stored documents and a fixed request, a group's
\* most_common_vehicle is the same on every execution, whatever the order in
\* which the store hands out the group's members.
C22_MostCommonDeterministic ==
    Answered("analyze") /\ Len(history) = 1 /\ response.status = 200 =>
        \A k \in 1..Len(response.groups), h \in 1..Len(history[1].groups) :
            response.groups[k].group_value = history[1].groups[h].group_value =>
                response.groups[k].most_common_vehicle =
                    history[1].groups[h].most_common_vehicle

(***************************************************************************)
(* Properties of paging through a county listing (SpecPaging).             *)
(***************************************************************************)
\* how often document d is on the pages received so far
TimesReturned(d) ==
    Cardinality({ ki \in (1..Len(history)) \X (1..MaxDocs) :
                    /\ ki[2] <= Len(history[ki[1]].vehicles)
                    /\ history[ki[1]].vehicles[ki[2]] = d })

\* how often document d is among the stored documents matching the request
TimesStored(d) == Cardinality({ i \in Matching : collection[i] = d })

\* C29: requesting pages 1..total_pages in turn returns every matching
\* document exactly once, also when matching documents have the same value
\* of the sort field; a page beyond total_pages is a successful result with
\* no vehicles.
C29_PagesPartitionMatches ==
    /\ Answered("county") /\ response.status = 200
    /\ request.page = response.total_pages + 1
    /\ Len(history) = response.total_pages
    => /\ \A d \in DocSamples : TimesReturned(d) = TimesStored(d)
       /\ response.vehicles = << >>

(***************************************************************************)
(* Properties of run_pipeline (SpecRun).                                   *)
(***************************************************************************)
\* the documents of this run that are stored
Loaded == store \cap (1..records)

\* C26: the batches are inserted one after another in input order and the
\* indexes are built only after the last batch; when the connection fails
\* while batch k is inserted, no later batch is attempted, the indexes are
\* not built, and the failure propagates out of load and run_pipeline.
C26_BatchesThenIndexes ==
    rpc \in { "load", "returned", "raised" } /\ lpc # "idle" =>
        /\ \A d \in 1..records : d <= load_i /\ d \notin faulty => d \in Loaded
        /\ \A d \in Loaded : d <= load_i + (IF lpc = "raised" THEN batch_size ELSE 0)
        /\ indexes => load_i >= records /\ exc = "none" /\ Loaded = 1..records
        /\ exc = "ConnectionFailure" =>
               /\ lpc = "raised"
               /\ ~indexes
               /\ rpc # "returned"
               /\ rpc = "raised" => rexc = "ConnectionFailure" /\ ~connected
        /\ rpc = "returned" => lpc = "returned" /\ indexes /\ rexc = "none"
        /\ rpc = "raised" => lpc = "raised" /\ rexc = exc

C26_Witness ==
    /\ rpc = "raised" /\ rexc = "ConnectionFailure"
    /\ records = 2 /\ batch_size = 1 /\ load_i = 0
    /\ Loaded = {}
    /\ ~indexes

\* C27: a run that aborts before the load phase leaves the stored vehicles
\* as they were before the run, also when drop_existing was requested.
C27_AbortLeavesStore ==
    rpc = "raised" /\ lpc = "idle" => store = before

\* C28: after a successful run_pipeline the number of stored documents is
\* report.valid_records plus the number stored before the run when
\* drop_existing is false, and report.valid_records alone when it is true.
C28_StoredCount ==
    rpc = "returned" =>
        /\ Cardinality(store) =
               quality_report.valid_records
                   + (IF drop_existing THEN 0 ELSE Cardinality(before))
        /\ Cardinality(Loaded) = Len(valid_records)
        /\ drop_existing => store = Loaded
        /\ ~drop_existing => store = before \cup Loaded

C28_Witness ==
    /\ rpc = "returned"
    /\ ~drop_existing /\ before = { OldDocument }
    /\ quality_report.valid_records = 2
    /\ Cardinality(store) = 3

====
